---- MODULE Spec2Model ----
(***************************************************************************)
(* Messenger Wallet Bot: the per-user conversation engine                  *)
(* (wallet_bot/messenger/handler.py), the record store it writes to        *)
(* (wallet_bot/sheets/handler.py) and the amount parser.                   *)
(*                                                                         *)
(* Texts and selection payloads are sequences of one-character strings,    *)
(* so that strip(), lower(), substring search, startswith() and float()    *)
(* are computed on them as the Python code computes them.                  *)
(***************************************************************************)
EXTENDS Integers, Sequences, FiniteSets, TLC

(***************************************************************************)
(* Bounds of the model.                                                    *)
(***************************************************************************)
\* Longest amount text enumerated character by character for the parser.
MaxAmountLen == 3
\* Most rows the Data_Log sheet holds below its header row.
MaxLog == 2
\* Most inbound events handled in one run of the dialogue.
MaxEvents == 5
\* Most requests the threaded server receives in one run.
MaxRequests == 4

(***************************************************************************)
(* Strings as character sequences.                                         *)
(***************************************************************************)
\* The characters Python's \s and str.strip() treat as whitespace.
Whitespace == {" "}

DigitChars == {"0", "1", "2", "3", "4", "5", "6", "7", "8", "9"}

DigitVal(c) ==
    CASE c = "0" -> 0 [] c = "1" -> 1 [] c = "2" -> 2 [] c = "3" -> 3
      [] c = "4" -> 4 [] c = "5" -> 5 [] c = "6" -> 6 [] c = "7" -> 7
      [] c = "8" -> 8 [] c = "9" -> 9

\* str.lower() on one character (the letters the inputs of the model use).
LowerChar(c) ==
    CASE c = "A" -> "a" [] c = "H" -> "h" [] c = "I" -> "i" [] c = "N" -> "n"
      [] c = "P" -> "p" [] c = "D" -> "d" [] c = "F" -> "f"
      [] OTHER -> c

lower(s) == [i \in 1..Len(s) |-> LowerChar(s[i])]

\* str.strip(): drop leading and trailing whitespace.
RECURSIVE lstrip(_)
lstrip(s) == IF s # <<>> /\ Head(s) \in Whitespace THEN lstrip(Tail(s)) ELSE s

RECURSIVE rstrip(_)
rstrip(s) ==
    IF s # <<>> /\ s[Len(s)] \in Whitespace
    THEN rstrip(SubSeq(s, 1, Len(s) - 1))
    ELSE s

strip(s) == rstrip(lstrip(s))

\* str.startswith(prefix)
startswith(s, prefix) ==
    Len(s) >= Len(prefix) /\ SubSeq(s, 1, Len(prefix)) = prefix

\* `word in text`: substring search.
contains(text, word) ==
    \E i \in 1..(Len(text) - Len(word) + 1) :
        SubSeq(text, i, i + Len(word) - 1) = word

\* any(word in text for word in words)
any_in(text, words) == \E w \in words : contains(text, w)

Pow10(k) == IF k = 0 THEN 1 ELSE IF k = 1 THEN 10 ELSE IF k = 2 THEN 100
            ELSE IF k = 3 THEN 1000 ELSE IF k = 4 THEN 10000
            ELSE IF k = 5 THEN 100000 ELSE IF k = 6 THEN 1000000
            ELSE IF k = 7 THEN 10000000 ELSE IF k = 8 THEN 100000000
            ELSE 1000000000

\* The value of a sequence of digit characters read as a decimal integer.
RECURSIVE DigitsValue(_)
DigitsValue(ds) ==
    IF ds = <<>> THEN 0
    ELSE 10 * DigitsValue(SubSeq(ds, 1, Len(ds) - 1)) + DigitVal(ds[Len(ds)])

(***************************************************************************)
(* The amount parser.                                                      *)
(***************************************************************************)
\* The characters re.sub(r'[₱$,\s]', '', amount_text) removes.  The peso
\* sign is written as the one-character token "PHP".
StrippedChars == {"PHP", "$", ","} \cup Whitespace

NaNWord == <<"n","a","n">>
InfWords == {<<"i","n","f">>, <<"i","n","f","i","n","i","t","y">>}

\* Python's float(str) on the characters the model feeds it: an optional
\* sign, then nan / inf / infinity in any case, or decimal digits with at
\* most one point and at least one digit.  A number is kept exactly, as
\* digits * 10^-scale.  Anything else raises ValueError.
float(s) ==
    LET signed == s # <<>> /\ s[1] \in {"+", "-"}
        neg    == s # <<>> /\ s[1] = "-"
        body   == IF signed THEN Tail(s) ELSE s
        low    == lower(body)
        points == {i \in 1..Len(body) : body[i] = "."}
        digits == SelectSeq(body, LAMBDA c : c \in DigitChars)
    IN  IF low = NaNWord THEN [kind |-> "nan"]
        ELSE IF low \in InfWords THEN [kind |-> "inf", neg |-> neg]
        ELSE IF /\ \A i \in 1..Len(body) : body[i] \in DigitChars \cup {"."}
                /\ Cardinality(points) <= 1
                /\ digits # <<>>
             THEN [kind   |-> "num",
                   neg    |-> neg,
                   digits |-> DigitsValue(digits),
                   scale  |-> IF points = {} THEN 0
                              ELSE Len(body) - (CHOOSE i \in points : TRUE)]
        ELSE [kind |-> "ValueError"]

\* round(amount, 2) of the positive number digits * 10^-scale, in cents.
\* The inputs of the model hold no digit 5, so no value lies exactly half
\* way between two cents (where the result would depend on the binary
\* representation of the float); such a tie is rounded to the even cent.
round2(digits, scale) ==
    IF scale <= 2 THEN digits * Pow10(2 - scale)
    ELSE LET unit == Pow10(scale - 2)
             q    == digits \div unit
             r    == digits % unit
         IN  IF 2 * r > unit THEN q + 1
             ELSE IF 2 * r < unit THEN q
             ELSE IF q % 2 = 0 THEN q ELSE q + 1

None == [kind |-> "None"]
NaN == [kind |-> "nan"]
Float(cents) == [kind |-> "float", cents |-> cents]

\* The upper limit of an amount, 1_000_000 pesos.
MaxAmount == 1000000

_parse_amount(amount_text) ==
    LET cleaned == SelectSeq(amount_text, LAMBDA c : c \notin StrippedChars)
        amount  == float(cleaned)
    IN  IF amount.kind = "ValueError" THEN None
        ELSE IF amount.kind = "nan" THEN NaN
        ELSE IF amount.kind = "inf" THEN None
        ELSE IF amount.neg \/ amount.digits = 0 THEN None
        ELSE IF amount.digits > MaxAmount * Pow10(amount.scale) THEN None
        ELSE Float(round2(amount.digits, amount.scale))

(***************************************************************************)
(* State.                                                                  *)
(***************************************************************************)
VARIABLES
    conversation_states,  \* handler.conversation_states: user id -> {"state", "data"}
    data_log,             \* the Data_Log worksheet: its header row and the rows below it
    formatted_report,     \* the Formatted_Report view: how many transactions it renders
    outbox,               \* the messages the last handled event tried to send
    threads,              \* the request threads of the threaded server, and where each is
    events,               \* how many inbound events have been received
    amount_text,          \* the text handed to the amount parser on its own
    parsed,               \* what the parser returned for amount_text
    instant,              \* the current instant: hours since 2024-01-01 00:00 UTC
    local_tz,             \* the UTC offset (hours) of the machine's local zone
    transaction_list,     \* the transaction list handed to generate_report
    report_period,        \* the period handed to generate_report
    report,               \* what generate_report returned
    cutoffs,              \* the period cutoffs the three filters computed
    webhook_payload,      \* the payload handed to process_webhook_message
    returned,             \* what process_webhook_message did at its end
    pending_call          \* the outside call the handler is waiting in

\* The state of the report engine on its own.
report_vars == <<instant, local_tz, transaction_list, report_period, report, cutoffs>>

\* The state of one call of process_webhook_message.
webhook_vars == <<webhook_payload, returned, pending_call>>

vars == <<conversation_states, data_log, formatted_report, outbox, threads,
          events, amount_text, parsed, report_vars, webhook_vars>>

\* class ConversationState
IDLE == "idle"
WAITING_EXPENSE_CATEGORY == "waiting_expense_category"
WAITING_EXPENSE_DESCRIPTION == "waiting_expense_description"
WAITING_EXPENSE_AMOUNT == "waiting_expense_amount"
WAITING_INCOME_SOURCE == "waiting_income_source"
WAITING_INCOME_DESCRIPTION == "waiting_income_description"
WAITING_INCOME_AMOUNT == "waiting_income_amount"
WAITING_STATS_PERIOD == "waiting_stats_period"

\* An empty Python dict.
EmptyDict == [k \in {} |-> ""]

\* dict.get(key, default)
dict_get(d, key, default) == IF key \in DOMAIN d THEN d[key] ELSE default

(***************************************************************************)
(* Conversation state management functions.                                *)
(***************************************************************************)
_get_conversation_state(cs, user_id) ==
    dict_get(dict_get(cs, user_id, EmptyDict), "state", IDLE)

_set_conversation_state(cs, user_id, state) ==
    LET entry == IF user_id \in DOMAIN cs THEN cs[user_id] ELSE EmptyDict
    IN  (user_id :> (("state" :> state) @@ entry)) @@ cs

_get_conversation_data(cs, user_id) ==
    dict_get(dict_get(cs, user_id, EmptyDict), "data", EmptyDict)

_update_conversation_data(cs, user_id, data) ==
    LET entry   == IF user_id \in DOMAIN cs THEN cs[user_id]
                   ELSE [state |-> IDLE, data |-> EmptyDict]
        with_d  == IF "data" \in DOMAIN entry THEN entry
                   ELSE ("data" :> EmptyDict) @@ entry
        updated == ("data" :> (data @@ with_d["data"])) @@ with_d
    IN  (user_id :> updated) @@ cs

\* A slip: the reset clears the sessions of all users.
_reset_conversation_state_all_users(cs, user_id) ==
    [u \in DOMAIN cs \cup {user_id} |-> [state |-> IDLE, data |-> EmptyDict]]

\* A slip: the reset puts the state back and keeps the data.
_reset_conversation_state_state_only(cs, user_id) ==
    _set_conversation_state(cs, user_id, IDLE)

_reset_conversation_state(cs, user_id) ==
    (user_id :> [state |-> IDLE, data |-> EmptyDict]) @@ cs

(***************************************************************************)
(* Outbound messages (wallet_bot/messenger/api.py).  A message is named by *)
(* what it says; `sent` is whether the Send API accepted it.               *)
(***************************************************************************)
WelcomeMenu == "welcome_menu"
CategoryPrompt == "expense_category_prompt"
SourcePrompt == "income_source_prompt"
PeriodPrompt == "stats_period_prompt"
ExpenseDescriptionPrompt == "expense_description_prompt"
IncomeDescriptionPrompt == "income_description_prompt"
ExpenseAmountPrompt == "expense_amount_prompt"
IncomeAmountPrompt == "income_amount_prompt"
ExpenseConfirmation == "expense_confirmation"
IncomeConfirmation == "income_confirmation"
ReportText == "report"
NoTransactionsText == "no_transactions"
TextOnlyNotice == "text_only_notice"

\* send_error_message(user_id, error_type): the text chosen for error_type.
send_error_message(error_type) ==
    IF error_type \in {"invalid_amount", "missing_description", "sheets_error"}
    THEN "error_" \o error_type
    ELSE "error_general"

(***************************************************************************)
(* The record store (wallet_bot/sheets/handler.py).                        *)
(***************************************************************************)
DATA_LOG_COLUMNS == <<"timestamp", "transaction_type", "category_or_source",
                      "description", "amount", "user_id">>

\* The row api.append_row(data_sheet, DATA_LOG_COLUMNS) leaves below a header.
ColumnNamesRow == [names |-> DATA_LOG_COLUMNS]

IsTransactionRow(row) == "transaction_type" \in DOMAIN row

\* REQUIRED_COLUMNS['Data_Log'] (sheets/api.py)
REQUIRED_COLUMNS == <<"timestamp", "transaction_type", "category_or_source",
                      "description", "amount">>

\* A worksheet nothing was written to.
EmptySheet == [header |-> <<>>, rows |-> <<>>]

\* ensure_columns_exist(worksheet, REQUIRED_COLUMNS[sheet_name]), which
\* get_worksheet runs before every call on the sheet: the required names
\* that row 1 lacks are written behind the names it has.
ensure_columns_exist(log) ==
    LET existing_headers == {log.header[i] : i \in 1..Len(log.header)}
        missing_columns  == SelectSeq(REQUIRED_COLUMNS,
                                      LAMBDA col : col \notin existing_headers)
    IN  [log EXCEPT !.header = @ \o missing_columns]

\* api.get_all_values(sheet_name): the rows of the sheet, row 1 first.
get_all_values(log) == IF log.header = <<>> THEN <<>> ELSE <<log.header>>

\* initialize_sheets(), run once when the application starts: the column
\* names are appended when get_all_values finds no row.
initialize_sheets(log) ==
    LET existing_data == get_all_values(ensure_columns_exist(log))
    IN  IF existing_data = <<>>
        THEN [ensure_columns_exist(log) EXCEPT !.rows = Append(@, ColumnNamesRow)]
        ELSE ensure_columns_exist(log)

\* log_transaction(...): validates, then appends one row.  Returns the sheet
\* and "True", or "raise" when validation or the append call raises.
\* (The timestamp column of the row is left out of the model.)
log_transaction(log, transaction_type, category_or_source, description, amount, user_id, append_ok) ==
    IF \/ transaction_type \notin {"income", "expense"}
       \/ (amount.kind = "float" /\ amount.cents <= 0)
       \/ category_or_source = ""
       \/ description = <<>>
       \/ ~append_ok
    THEN [log |-> log, result |-> "raise"]
    ELSE [log |-> [ensure_columns_exist(log) EXCEPT !.rows = Append(@,
                      [transaction_type   |-> transaction_type,
                       category_or_source |-> category_or_source,
                       description        |-> description,
                       amount             |-> amount,
                       user_id            |-> user_id])],
          result |-> "True"]

\* A rebuild that takes every first row for a wrong header.
regenerate_formatted_report_clears(store, rebuild_ok) ==
    IF ~rebuild_ok THEN store
    ELSE [log    |-> [ensure_columns_exist(store.log) EXCEPT !.rows = <<ColumnNamesRow>>],
          report |-> 0]

\* regenerate_formatted_report(): rebuilds the view from Data_Log; when the
\* header row is not DATA_LOG_COLUMNS it clears the sheet (clear_worksheet
\* keeps the header row it finds) and appends the column names.  With
\* rebuild_ok false every sheet call raises and nothing is written.
\* pd.to_numeric(..., errors='coerce') drops the rows whose amount is NaN.
regenerate_formatted_report(store, rebuild_ok) ==
    IF ~rebuild_ok THEN store
    ELSE IF get_all_values(ensure_columns_exist(store.log))[1] # DATA_LOG_COLUMNS
    THEN [log    |-> [ensure_columns_exist(store.log) EXCEPT !.rows = <<ColumnNamesRow>>],
          report |-> 0]
    ELSE [log    |-> store.log,
          report |-> Len(SelectSeq(store.log.rows,
                         LAMBDA row : IsTransactionRow(row)
                                      /\ row.amount.kind = "float"))]

\* get_transactions_for_period(period, user_id): the user's rows.  Every row
\* of a run is logged at the current instant, so the period keeps them all.
get_transactions_for_period(log, period, user_id) ==
    SelectSeq(log.rows,
              LAMBDA row : IsTransactionRow(row) /\ row.user_id = user_id)

(***************************************************************************)
(* The conversation handlers (wallet_bot/messenger/handler.py).  A handler *)
(* takes the world w = [cs, log, report] and returns it changed, with the  *)
(* message it sends.  env gives what the collaborators do during the       *)
(* event: env.append, env.rebuild, env.read (the sheet calls succeed).     *)
(***************************************************************************)
Reply(w, msg) == [cs |-> w.cs, log |-> w.log, report |-> w.report, msg |-> msg]

WithState(w, cs) == [cs |-> cs, log |-> w.log, report |-> w.report]

_start_expense_logging(w, user_id) ==
    Reply(WithState(w, _set_conversation_state(w.cs, user_id, WAITING_EXPENSE_CATEGORY)),
          CategoryPrompt)

_start_income_logging(w, user_id) ==
    Reply(WithState(w, _set_conversation_state(w.cs, user_id, WAITING_INCOME_SOURCE)),
          SourcePrompt)

_start_stats_request(w, user_id) ==
    Reply(WithState(w, _set_conversation_state(w.cs, user_id, WAITING_STATS_PERIOD)),
          PeriodPrompt)

\* category_map.get(payload, "Other")
category_map(payload) ==
    CASE payload = <<"C","A","T","E","G","O","R","Y","_","F","O","O","D">> -> "Food"
      [] payload = <<"C","A","T","E","G","O","R","Y","_","T","R","A","N","S","P","O","R","T">> -> "Transportation"
      [] payload = <<"C","A","T","E","G","O","R","Y","_","H","O","U","S","I","N","G">> -> "Housing"
      [] payload = <<"C","A","T","E","G","O","R","Y","_","S","H","O","P","P","I","N","G">> -> "Shopping"
      [] payload = <<"C","A","T","E","G","O","R","Y","_","U","T","I","L","I","T","I","E","S">> -> "Utilities"
      [] payload = <<"C","A","T","E","G","O","R","Y","_","E","N","T","E","R","T","A","I","N","M","E","N","T">> -> "Entertainment"
      [] payload = <<"C","A","T","E","G","O","R","Y","_","H","E","A","L","T","H","C","A","R","E">> -> "Healthcare"
      [] payload = <<"C","A","T","E","G","O","R","Y","_","E","D","U","C","A","T","I","O","N">> -> "Education"
      [] payload = <<"C","A","T","E","G","O","R","Y","_","O","T","H","E","R">> -> "Other"
      [] OTHER -> "Other"

\* source_map.get(payload, "Other")
source_map(payload) ==
    CASE payload = <<"S","O","U","R","C","E","_","S","A","L","A","R","Y">> -> "Salary"
      [] payload = <<"S","O","U","R","C","E","_","F","R","E","E","L","A","N","C","E">> -> "Freelance"
      [] payload = <<"S","O","U","R","C","E","_","B","U","S","I","N","E","S","S">> -> "Business"
      [] payload = <<"S","O","U","R","C","E","_","G","I","F","T">> -> "Gift"
      [] payload = <<"S","O","U","R","C","E","_","I","N","V","E","S","T","M","E","N","T">> -> "Investment"
      [] payload = <<"S","O","U","R","C","E","_","R","E","F","U","N","D">> -> "Refund"
      [] payload = <<"S","O","U","R","C","E","_","O","T","H","E","R">> -> "Other"
      [] OTHER -> "Other"

\* period_map.get(payload, "This Week")
period_map(payload) ==
    CASE payload = <<"P","E","R","I","O","D","_","W","E","E","K">> -> "This Week"
      [] payload = <<"P","E","R","I","O","D","_","M","O","N","T","H">> -> "This Month"
      [] OTHER -> "This Week"

_handle_expense_category_selection(w, user_id, payload) ==
    LET category == category_map(payload)
        cs1 == _update_conversation_data(w.cs, user_id,
                                         [expense_category |-> category])
        cs2 == _set_conversation_state(cs1, user_id, WAITING_EXPENSE_DESCRIPTION)
    IN  Reply(WithState(w, cs2), ExpenseDescriptionPrompt)

_handle_income_source_selection(w, user_id, payload) ==
    LET source == source_map(payload)
        cs1 == _update_conversation_data(w.cs, user_id, [income_source |-> source])
        cs2 == _set_conversation_state(cs1, user_id, WAITING_INCOME_DESCRIPTION)
    IN  Reply(WithState(w, cs2), IncomeDescriptionPrompt)

\* A slip: the session is not reset when the period has no transactions.
_generate_and_send_report_empty_keeps_state(w, user_id, period, env) ==
    IF ~env.read THEN Reply(w, send_error_message("general"))
    ELSE LET transactions == get_transactions_for_period(w.log, period, user_id)
             cs1 == _reset_conversation_state(w.cs, user_id)
         IN  IF transactions = <<>>
             THEN Reply(w, NoTransactionsText)
             ELSE Reply(WithState(w, cs1), ReportText)

\* _generate_and_send_report: a failing read raises before any reset and is
\* answered with the general error.
\* A slip: the rows that were read are taken off the sheet.
_generate_and_send_report_consuming(w, user_id, period, env) ==
    IF ~env.read THEN Reply(w, send_error_message("general"))
    ELSE LET transactions == get_transactions_for_period(w.log, period, user_id)
             cs1 == _reset_conversation_state(w.cs, user_id)
             w1  == [cs |-> cs1,
                     log |-> [w.log EXCEPT !.rows =
                                SelectSeq(@, LAMBDA row : ~(IsTransactionRow(row) /\ row.user_id = user_id))],
                     report |-> w.report]
         IN  IF transactions = <<>>
             THEN Reply(w1, NoTransactionsText)
             ELSE Reply(w1, ReportText)

_generate_and_send_report(w, user_id, period, env) ==
    IF ~env.read THEN Reply(w, send_error_message("general"))
    ELSE LET transactions == get_transactions_for_period(w.log, period, user_id)
             cs1 == _reset_conversation_state(w.cs, user_id)
             w1  == [cs |-> cs1, log |-> ensure_columns_exist(w.log), report |-> w.report]
         IN  IF transactions = <<>>
             THEN Reply(w1, NoTransactionsText)
             ELSE Reply(w1, ReportText)

_handle_stats_period_selection(w, user_id, payload, env) ==
    _generate_and_send_report(w, user_id, period_map(payload), env)

\* A slip: a description of one character is accepted.
_handle_expense_description_min1(w, user_id, description) ==
    IF Len(strip(description)) < 1
    THEN Reply(w, send_error_message("missing_description"))
    ELSE LET cs1 == _update_conversation_data(w.cs, user_id,
                        [expense_description |-> strip(description)])
             cs2 == _set_conversation_state(cs1, user_id, WAITING_EXPENSE_AMOUNT)
         IN  Reply(WithState(w, cs2), ExpenseAmountPrompt)

_handle_expense_description(w, user_id, description) ==
    IF Len(strip(description)) < 2
    THEN Reply(w, send_error_message("missing_description"))
    ELSE LET cs1 == _update_conversation_data(w.cs, user_id,
                        [expense_description |-> strip(description)])
             cs2 == _set_conversation_state(cs1, user_id, WAITING_EXPENSE_AMOUNT)
         IN  Reply(WithState(w, cs2), ExpenseAmountPrompt)

_handle_income_description(w, user_id, description) ==
    IF Len(strip(description)) < 2
    THEN Reply(w, send_error_message("missing_description"))
    ELSE LET cs1 == _update_conversation_data(w.cs, user_id,
                        [income_description |-> strip(description)])
             cs2 == _set_conversation_state(cs1, user_id, WAITING_INCOME_AMOUNT)
         IN  Reply(WithState(w, cs2), IncomeAmountPrompt)

\* _log_expense_transaction / _log_income_transaction: log_transaction, then
\* on success the rebuild of the view; any exception becomes False.
\* A slip: a failed rebuild of the view is reported as a failed append.
_log_transaction_rebuild_aborts(w, transaction_type, user_id, amount, description, category_or_source, env) ==
    LET logged == log_transaction(w.log, transaction_type, category_or_source,
                                  description, amount, user_id, env.append)
    IN  IF logged.result = "raise"
        THEN [w |-> w, success |-> FALSE]
        ELSE LET rebuilt == regenerate_formatted_report(
                                [log |-> logged.log, report |-> w.report],
                                env.rebuild)
             IN  [w |-> [cs |-> w.cs, log |-> rebuilt.log, report |-> rebuilt.report],
                  success |-> env.rebuild]

_log_transaction(w, transaction_type, user_id, amount, description, category_or_source, env) ==
    LET logged == log_transaction(w.log, transaction_type, category_or_source,
                                  description, amount, user_id, env.append)
    IN  IF logged.result = "raise"
        THEN [w |-> w, success |-> FALSE]
        ELSE LET rebuilt == regenerate_formatted_report(
                                [log |-> logged.log, report |-> w.report],
                                env.rebuild)
             IN  [w |-> [cs |-> w.cs, log |-> rebuilt.log, report |-> rebuilt.report],
                  success |-> TRUE]

_log_expense_transaction(w, user_id, amount, description, category, env) ==
    _log_transaction(w, "expense", user_id, amount, description, category, env)

\* A slip: the income is logged with the type of the expense handler.
_log_income_transaction_as_expense(w, user_id, amount, description, source, env) ==
    _log_transaction(w, "expense", user_id, amount, description, source, env)

_log_income_transaction(w, user_id, amount, description, source, env) ==
    _log_transaction(w, "income", user_id, amount, description, source, env)

\* The part of _handle_expense_amount after the stored data was read and the
\* transaction was logged: the error, or the reset and the confirmation.
\* A slip: the session is not reset after the expense was logged.
_finish_expense_amount_no_reset(w, user_id, success) ==
    IF ~success THEN Reply(w, send_error_message("sheets_error"))
    ELSE Reply(w, ExpenseConfirmation)

_finish_expense_amount(w, user_id, success) ==
    IF ~success THEN Reply(w, send_error_message("sheets_error"))
    ELSE Reply(WithState(w, _reset_conversation_state(w.cs, user_id)),
               ExpenseConfirmation)

\* A slip: the session is reset whether or not the income was logged.
_finish_income_amount_reset_on_error(w, user_id, success) ==
    IF ~success
    THEN Reply(WithState(w, _reset_conversation_state(w.cs, user_id)),
               send_error_message("sheets_error"))
    ELSE Reply(WithState(w, _reset_conversation_state(w.cs, user_id)),
               IncomeConfirmation)

_finish_income_amount(w, user_id, success) ==
    IF ~success THEN Reply(w, send_error_message("sheets_error"))
    ELSE Reply(WithState(w, _reset_conversation_state(w.cs, user_id)),
               IncomeConfirmation)

DefaultExpenseDescription == <<"E","x","p","e","n","s","e">>
DefaultIncomeDescription == <<"I","n","c","o","m","e">>

_handle_expense_amount(w, user_id, amount_text_, env) ==
    LET amount == _parse_amount(amount_text_)
    IN  IF amount = None THEN Reply(w, send_error_message("invalid_amount"))
        ELSE LET conversation_data == _get_conversation_data(w.cs, user_id)
                 category    == dict_get(conversation_data, "expense_category", "Other")
                 description == dict_get(conversation_data, "expense_description",
                                         DefaultExpenseDescription)
                 logged == _log_expense_transaction(w, user_id, amount,
                                                    description, category, env)
             IN  _finish_expense_amount(logged.w, user_id, logged.success)

_handle_income_amount(w, user_id, amount_text_, env) ==
    LET amount == _parse_amount(amount_text_)
    IN  IF amount = None THEN Reply(w, send_error_message("invalid_amount"))
        ELSE LET conversation_data == _get_conversation_data(w.cs, user_id)
                 source      == dict_get(conversation_data, "income_source", "Other")
                 description == dict_get(conversation_data, "income_description",
                                         DefaultIncomeDescription)
                 logged == _log_income_transaction(w, user_id, amount,
                                                   description, source, env)
             IN  _finish_income_amount(logged.w, user_id, logged.success)

GreetingWords == {<<"h","i">>, <<"h","e","l","l","o">>, <<"h","e","y">>,
                  <<"s","t","a","r","t">>, <<"m","e","n","u">>}
ExpenseWords == {<<"e","x","p","e","n","s","e">>, <<"s","p","e","n","d">>,
                 <<"c","o","s","t">>, <<"b","u","y">>, <<"p","a","i","d">>}
IncomeWords == {<<"i","n","c","o","m","e">>, <<"e","a","r","n">>,
                <<"s","a","l","a","r","y">>, <<"m","o","n","e","y">>,
                <<"r","e","c","e","i","v","e">>}
StatsWords == {<<"s","t","a","t","s">>, <<"r","e","p","o","r","t">>,
               <<"s","u","m","m","a","r","y">>, <<"t","o","t","a","l">>,
               <<"v","i","e","w">>}
HelpWords == {<<"h","e","l","p">>, <<"w","h","a","t">>, <<"h","o","w">>}

_handle_idle_text_message(w, user_id, text) ==
    LET text_lower == lower(text)
    IN  IF any_in(text_lower, GreetingWords) THEN Reply(w, WelcomeMenu)
        ELSE IF any_in(text_lower, ExpenseWords) THEN _start_expense_logging(w, user_id)
        ELSE IF any_in(text_lower, IncomeWords) THEN _start_income_logging(w, user_id)
        ELSE IF any_in(text_lower, StatsWords) THEN _start_stats_request(w, user_id)
        ELSE IF any_in(text_lower, HelpWords) THEN Reply(w, WelcomeMenu)
        ELSE Reply(w, WelcomeMenu)

\* A slip: the menu is shown and the session is left as it was.
_reset_and_show_menu_no_reset(w, user_id) == Reply(w, WelcomeMenu)

_reset_and_show_menu(w, user_id) ==
    Reply(WithState(w, _reset_conversation_state(w.cs, user_id)), WelcomeMenu)

\* The body of _handle_text_message once it has read `state`.
_dispatch_text(w, user_id, text, state, env) ==
    IF state = IDLE THEN _handle_idle_text_message(w, user_id, text)
    ELSE IF state = WAITING_EXPENSE_DESCRIPTION
         THEN _handle_expense_description(w, user_id, text)
    ELSE IF state = WAITING_EXPENSE_AMOUNT
         THEN _handle_expense_amount(w, user_id, text, env)
    ELSE IF state = WAITING_INCOME_DESCRIPTION
         THEN _handle_income_description(w, user_id, text)
    ELSE IF state = WAITING_INCOME_AMOUNT
         THEN _handle_income_amount(w, user_id, text, env)
    ELSE _reset_and_show_menu(w, user_id)

_handle_text_message(w, user_id, text, env) ==
    _dispatch_text(w, user_id, text, _get_conversation_state(w.cs, user_id), env)

_handle_quick_reply(w, user_id, payload, env) ==
    IF payload = <<"L","O","G","_","E","X","P","E","N","S","E">>
    THEN _start_expense_logging(w, user_id)
    ELSE IF payload = <<"L","O","G","_","I","N","C","O","M","E">>
    THEN _start_income_logging(w, user_id)
    ELSE IF payload = <<"V","I","E","W","_","S","T","A","T","S">>
    THEN _start_stats_request(w, user_id)
    ELSE IF startswith(payload, <<"C","A","T","E","G","O","R","Y","_">>)
    THEN _handle_expense_category_selection(w, user_id, payload)
    ELSE IF startswith(payload, <<"S","O","U","R","C","E","_">>)
    THEN _handle_income_source_selection(w, user_id, payload)
    ELSE IF startswith(payload, <<"P","E","R","I","O","D","_">>)
    THEN _handle_stats_period_selection(w, user_id, payload, env)
    ELSE Reply(w, send_error_message("general"))

_handle_postback(w, user_id, payload, env) ==
    IF payload = <<"G","E","T","_","S","T","A","R","T","E","D">>
    THEN Reply(WithState(w, _reset_conversation_state(w.cs, user_id)), WelcomeMenu)
    ELSE _handle_quick_reply(w, user_id, payload, env)

_handle_unsupported_message(w, user_id) == Reply(w, TextOnlyNotice)

(***************************************************************************)
(* The payloads the bot offers in its menus and buttons.                   *)
(***************************************************************************)
LOG_EXPENSE == <<"L","O","G","_","E","X","P","E","N","S","E">>
LOG_INCOME == <<"L","O","G","_","I","N","C","O","M","E">>
VIEW_STATS == <<"V","I","E","W","_","S","T","A","T","S">>
GET_STARTED == <<"G","E","T","_","S","T","A","R","T","E","D">>
CATEGORY_FOOD == <<"C","A","T","E","G","O","R","Y","_","F","O","O","D">>
SOURCE_SALARY == <<"S","O","U","R","C","E","_","S","A","L","A","R","Y">>
PERIOD_WEEK == <<"P","E","R","I","O","D","_","W","E","E","K">>
PERIOD_MONTH == <<"P","E","R","I","O","D","_","M","O","N","T","H">>

\* The payloads of EXPENSE_CATEGORIES, INCOME_SOURCES and STATS_PERIODS.
EXPENSE_CATEGORIES ==
    {<<"C","A","T","E","G","O","R","Y","_","F","O","O","D">>,
     <<"C","A","T","E","G","O","R","Y","_","T","R","A","N","S","P","O","R","T">>,
     <<"C","A","T","E","G","O","R","Y","_","H","O","U","S","I","N","G">>,
     <<"C","A","T","E","G","O","R","Y","_","S","H","O","P","P","I","N","G">>,
     <<"C","A","T","E","G","O","R","Y","_","U","T","I","L","I","T","I","E","S">>,
     <<"C","A","T","E","G","O","R","Y","_","E","N","T","E","R","T","A","I","N","M","E","N","T">>,
     <<"C","A","T","E","G","O","R","Y","_","H","E","A","L","T","H","C","A","R","E">>,
     <<"C","A","T","E","G","O","R","Y","_","E","D","U","C","A","T","I","O","N">>,
     <<"C","A","T","E","G","O","R","Y","_","O","T","H","E","R">>}

INCOME_SOURCES ==
    {<<"S","O","U","R","C","E","_","S","A","L","A","R","Y">>,
     <<"S","O","U","R","C","E","_","F","R","E","E","L","A","N","C","E">>,
     <<"S","O","U","R","C","E","_","B","U","S","I","N","E","S","S">>,
     <<"S","O","U","R","C","E","_","G","I","F","T">>,
     <<"S","O","U","R","C","E","_","I","N","V","E","S","T","M","E","N","T">>,
     <<"S","O","U","R","C","E","_","R","E","F","U","N","D">>,
     <<"S","O","U","R","C","E","_","O","T","H","E","R">>}

STATS_PERIODS == {PERIOD_WEEK, PERIOD_MONTH}

(***************************************************************************)
(* Inputs.                                                                 *)
(***************************************************************************)
\* sender ids
Users == {"u1", "u2"}

\* message["text"] of a text message, before .strip()
Texts == {<<" ","x">>,
          <<"h","i">>,
          <<"1","5","0">>,
          <<"n","a","n">>,
          <<"0",".","0","0","4">>}

\* quick_reply / postback payloads: those the bot offers, and others
Payloads == {<<"L","O","G","_","E","X","P","E","N","S","E">>,
             <<"L","O","G","_","I","N","C","O","M","E">>,
             <<"V","I","E","W","_","S","T","A","T","S">>,
             <<"G","E","T","_","S","T","A","R","T","E","D">>,
             <<"C","A","T","E","G","O","R","Y","_","F","O","O","D">>,
             <<"C","A","T","E","G","O","R","Y","_","P","E","T","S">>,
             <<"S","O","U","R","C","E","_","S","A","L","A","R","Y">>,
             <<"S","O","U","R","C","E","_","L","O","T","T","O">>,
             <<"P","E","R","I","O","D","_","W","E","E","K">>,
             <<"P","E","R","I","O","D","_","M","O","N","T","H">>,
             <<"P","E","R","I","O","D","_","Y","E","A","R">>,
             <<"S","E","T","T","I","N","G","S">>}

\* What the record store does during one event.
Envs == [append : BOOLEAN, rebuild : BOOLEAN, read : BOOLEAN]

\* The text handlers append and rebuild, and never read the transactions
\* back; the selection handlers only read them (for the statistics).
TextEnvs == {env \in Envs : env.read}

SelectionEnvs == {env \in Envs : env.append /\ env.rebuild}

\* The store answers every call.
AllOk == [append |-> TRUE, rebuild |-> TRUE, read |-> TRUE]

\* The request threads of app.run(threaded=True).
Threads == {"t1", "t2"}

IdleThread == [pc |-> "idle"]

(***************************************************************************)
(* Events handled one at a time (process_webhook_message to completion).   *)
(***************************************************************************)
World == [cs |-> conversation_states, log |-> data_log, report |-> formatted_report]

\* A slip: the session is put back when the message could not be delivered.
Commit_undone_when_unsent(r, user_id, sent) ==
    /\ Len(r.log.rows) <= MaxLog
    /\ conversation_states' = IF sent THEN r.cs ELSE conversation_states
    /\ data_log' = r.log
    /\ formatted_report' = r.report
    /\ outbox' = <<[to |-> user_id, msg |-> r.msg, sent |-> sent]>>
    /\ events' = events + 1

Commit_silent_on_error(r, user_id, sent) ==
    /\ Len(r.log.rows) <= MaxLog
    /\ conversation_states' = r.cs
    /\ data_log' = r.log
    /\ formatted_report' = r.report
    /\ outbox' = IF r.msg = send_error_message("sheets_error")
                 THEN <<>>
                 ELSE <<[to |-> user_id, msg |-> r.msg, sent |-> sent]>>
    /\ events' = events + 1

\* The handler's result r becomes the new state; its message goes out.
Commit(r, user_id, sent) ==
    /\ Len(r.log.rows) <= MaxLog
    /\ conversation_states' = r.cs
    /\ data_log' = r.log
    /\ formatted_report' = r.report
    /\ outbox' = <<[to |-> user_id, msg |-> r.msg, sent |-> sent]>>
    /\ events' = events + 1

\* _handle_incoming_message with "text" in message
TextMessage(user_id, text, sent) ==
    /\ events < MaxEvents
    /\ \E r \in {_handle_text_message(World, user_id, strip(text), env) : env \in TextEnvs} :
        Commit(r, user_id, sent)
    /\ UNCHANGED <<threads, amount_text, parsed>>
    /\ UNCHANGED <<report_vars, webhook_vars>>

\* _handle_incoming_message with "quick_reply" in message
QuickReply(user_id, payload, sent) ==
    /\ events < MaxEvents
    /\ \E r \in {_handle_quick_reply(World, user_id, payload, env) : env \in SelectionEnvs} :
        Commit(r, user_id, sent)
    /\ UNCHANGED <<threads, amount_text, parsed>>
    /\ UNCHANGED <<report_vars, webhook_vars>>

\* _handle_message_event with "postback" in event
Postback(user_id, payload, sent) ==
    /\ events < MaxEvents
    /\ \E r \in {_handle_postback(World, user_id, payload, env) : env \in SelectionEnvs} :
        Commit(r, user_id, sent)
    /\ UNCHANGED <<threads, amount_text, parsed>>
    /\ UNCHANGED <<report_vars, webhook_vars>>

\* _handle_incoming_message with neither (a sticker, an attachment)
UnsupportedMessage(user_id, sent) ==
    /\ events < MaxEvents
    /\ Commit(_handle_unsupported_message(World, user_id), user_id, sent)
    /\ UNCHANGED <<threads, amount_text, parsed>>
    /\ UNCHANGED <<report_vars, webhook_vars>>

\* Nothing was asked of the report engine.
NoReport == [kind |-> "none"]

NoCutoffs == [kind |-> "none"]

ReportIdle ==
    /\ instant = 0
    /\ local_tz = 0
    /\ transaction_list = <<>>
    /\ report_period = "This Week"
    /\ report = NoReport
    /\ cutoffs = NoCutoffs
    /\ webhook_payload = [kind |-> "none"]
    /\ returned = [kind |-> "none"]
    /\ pending_call = [kind |-> "none"]

Init ==
    /\ conversation_states = EmptyDict
    /\ data_log = [header |-> DATA_LOG_COLUMNS, rows |-> <<>>]
    /\ formatted_report = 0
    /\ outbox = <<>>
    /\ threads = [t \in Threads |-> IdleThread]
    /\ events = 0
    /\ amount_text = <<>>
    /\ parsed = None
    /\ ReportIdle

\* The events of the users in `users`, each handled to completion.
Handle(users) ==
    \E user_id \in users, sent \in BOOLEAN :
        \/ \E text \in Texts : TextMessage(user_id, text, sent)
        \/ \E payload \in Payloads : QuickReply(user_id, payload, sent)
        \/ \E payload \in Payloads : Postback(user_id, payload, sent)
        \/ UnsupportedMessage(user_id, sent)

Next == Handle({"u1"})

Spec == Init /\ [][Next]_vars

(***************************************************************************)
(* The threaded server (app.run(threaded=True)): every webhook request     *)
(* runs process_webhook_message on its own thread, and no lock guards      *)
(* conversation_states.  A text message takes up to three steps, cut where *)
(* the handler reads the shared state and where it waits for the store:    *)
(* _handle_text_message reads the state; the handler runs up to the return *)
(* of the append; the handler resets the session and answers.  The         *)
(* selection handlers touch the store at most once and run in one step.    *)
(***************************************************************************)
AmountStates == {WAITING_EXPENSE_AMOUNT, WAITING_INCOME_AMOUNT}

\* state = _get_conversation_state(user_id)
ReceiveText(t, user_id, text) ==
    /\ events < MaxRequests
    /\ threads[t] = IdleThread
    /\ threads' = [threads EXCEPT ![t] =
                      [pc      |-> "dispatched",
                       user_id |-> user_id,
                       text    |-> strip(text),
                       state   |-> _get_conversation_state(conversation_states, user_id)]]
    /\ events' = events + 1
    /\ UNCHANGED <<conversation_states, data_log, formatted_report, outbox,
                   amount_text, parsed>>
    /\ UNCHANGED <<report_vars, webhook_vars>>

\* A handler that is no amount handler, or an amount handler whose text
\* does not parse: it runs to its end.
RunHandler(t, sent) ==
    /\ threads[t].pc = "dispatched"
    /\ LET th == threads[t]
       IN  /\ th.state \in AmountStates => _parse_amount(th.text) = None
           /\ \E r \in {_dispatch_text(World, th.user_id, th.text, th.state, AllOk)} :
                /\ conversation_states' = r.cs
                /\ outbox' = <<[to |-> th.user_id, msg |-> r.msg, sent |-> sent]>>
    /\ threads' = [threads EXCEPT ![t] = IdleThread]
    /\ UNCHANGED <<data_log, formatted_report, events, amount_text, parsed>>
    /\ UNCHANGED <<report_vars, webhook_vars>>

\* _handle_expense_amount / _handle_income_amount up to the return of
\* _log_expense_transaction / _log_income_transaction.
LogAmount(t, env) ==
    /\ threads[t].pc = "dispatched"
    /\ threads[t].state \in AmountStates
    /\ LET th     == threads[t]
           amount == _parse_amount(th.text)
           conversation_data == _get_conversation_data(conversation_states, th.user_id)
           logged ==
               IF th.state = WAITING_EXPENSE_AMOUNT
               THEN _log_expense_transaction(World, th.user_id, amount,
                        dict_get(conversation_data, "expense_description",
                                 DefaultExpenseDescription),
                        dict_get(conversation_data, "expense_category", "Other"),
                        env)
               ELSE _log_income_transaction(World, th.user_id, amount,
                        dict_get(conversation_data, "income_description",
                                 DefaultIncomeDescription),
                        dict_get(conversation_data, "income_source", "Other"),
                        env)
       IN  /\ amount # None
           /\ Len(logged.w.log.rows) <= MaxLog
           /\ data_log' = logged.w.log
           /\ formatted_report' = logged.w.report
           /\ threads' = [threads EXCEPT ![t] =
                             [pc      |-> "logged",
                              user_id |-> th.user_id,
                              state   |-> th.state,
                              success |-> logged.success]]
    /\ UNCHANGED <<conversation_states, outbox, events, amount_text, parsed>>
    /\ UNCHANGED <<report_vars, webhook_vars>>

\* The rest of the amount handler: the storage error, or the reset and
\* the confirmation.
FinishAmount(t, sent) ==
    /\ threads[t].pc = "logged"
    /\ LET th == threads[t]
           r  == IF th.state = WAITING_EXPENSE_AMOUNT
                 THEN _finish_expense_amount(World, th.user_id, th.success)
                 ELSE _finish_income_amount(World, th.user_id, th.success)
       IN  /\ conversation_states' = r.cs
           /\ outbox' = <<[to |-> th.user_id, msg |-> r.msg, sent |-> sent]>>
    /\ threads' = [threads EXCEPT ![t] = IdleThread]
    /\ UNCHANGED <<data_log, formatted_report, events, amount_text, parsed>>
    /\ UNCHANGED <<report_vars, webhook_vars>>

\* A quick reply or a postback, handled on a free thread in one step.
Selection(user_id, payload, postback, sent) ==
    /\ events < MaxRequests
    /\ \E t \in Threads : threads[t] = IdleThread
    /\ \E r \in {IF postback THEN _handle_postback(World, user_id, payload, env)
                 ELSE _handle_quick_reply(World, user_id, payload, env) : env \in SelectionEnvs} :
        /\ conversation_states' = r.cs
        /\ data_log' = r.log
        /\ formatted_report' = r.report
        /\ outbox' = <<[to |-> user_id, msg |-> r.msg, sent |-> sent]>>
    /\ events' = events + 1
    /\ UNCHANGED <<threads, amount_text, parsed>>
    /\ UNCHANGED <<report_vars, webhook_vars>>

\* The texts and payloads sent to the threaded server.
ThreadTexts == {<<"h","i">>, <<"1","5","0">>}

ThreadPayloads == {<<"C","A","T","E","G","O","R","Y","_","F","O","O","D">>,
                   <<"S","O","U","R","C","E","_","S","A","L","A","R","Y">>,
                   <<"L","O","G","_","I","N","C","O","M","E">>,
                   <<"G","E","T","_","S","T","A","R","T","E","D">>}

NextThreads ==
    \E sent \in BOOLEAN :
        \/ \E t \in Threads, user_id \in Users, text \in ThreadTexts :
               ReceiveText(t, user_id, text)
        \/ \E t \in Threads : RunHandler(t, sent)
        \/ \E t \in Threads, env \in TextEnvs : LogAmount(t, env)
        \/ \E t \in Threads : FinishAmount(t, sent)
        \/ \E user_id \in Users, payload \in ThreadPayloads, postback \in BOOLEAN :
               Selection(user_id, payload, postback, sent)

SpecThreads == Init /\ [][NextThreads]_vars

(***************************************************************************)
(* The amount parser on its own: _parse_amount applied to one text.        *)
(***************************************************************************)
\* The characters the enumerated amount texts are made of.
AmountChars == {"0", "1", "9", ".", ",", "-", " ", "PHP", "n", "a"}

\* Longer amount texts, around the limits of the parser.
AmountSamples ==
    {<<"1","0","0","0","0","0","0">>,
     <<"1","0","0","0","0","0","1">>,
     <<"1","0","0","0","0","0","0",".","0","1">>,
     <<"1","0","0","0","0","0","0",".","0","0","1">>,
     <<"9","9","9","9","9","9",".","9","9","9">>,
     <<"PHP","1",",","0","0","0",",","0","0","0">>,
     <<"PHP","1",",","9","0","0",".","9","0">>,
     <<"$"," ","1","9",".","9","9","9">>,
     <<"0",".","0","0","9">>,
     <<"0",".","0","0","1">>,
     <<"-","0",".","0","1">>,
     <<"+","1","9">>,
     <<"-","n","a","n">>,
     <<"N","a","N">>,
     <<"i","n","f">>,
     <<"-","I","n","f","i","n","i","t","y">>,
     <<"1",".","9",".","0">>,
     <<"h","i">>}

AmountTexts ==
    UNION {[1..n -> AmountChars] : n \in 0..MaxAmountLen} \cup AmountSamples

\* No call of the parser has returned yet.
Unparsed == [kind |-> "unparsed"]

InitParse ==
    /\ conversation_states = EmptyDict
    /\ data_log = [header |-> DATA_LOG_COLUMNS, rows |-> <<>>]
    /\ formatted_report = 0
    /\ outbox = <<>>
    /\ threads = [t \in Threads |-> IdleThread]
    /\ events = 0
    /\ amount_text \in AmountTexts
    /\ parsed = Unparsed
    /\ ReportIdle

\* amount = _parse_amount(amount_text)
ParseAmount ==
    /\ parsed = Unparsed
    /\ parsed' = _parse_amount(amount_text)
    /\ UNCHANGED <<conversation_states, data_log, formatted_report, outbox,
                   threads, events, amount_text>>
    /\ UNCHANGED <<report_vars, webhook_vars>>

NextParse == ParseAmount

SpecParse == InitParse /\ [][NextParse]_vars

(***************************************************************************)
(* C6.  The amount contract, stated on its own: what the specification     *)
(* expects of a text, computed from the text's decimal reading.            *)
(***************************************************************************)
\* The text without currency symbols, thousands separators and whitespace.
C6_Cleaned(text) == SelectSeq(text, LAMBDA c : c \notin {"PHP", "$", ",", " "})

\* A decimal numeral: an optional sign, digits, at most one decimal point.
C6_IsNumeral(s) ==
    LET body == IF s # <<>> /\ s[1] \in {"+", "-"} THEN Tail(s) ELSE s
    IN  /\ \A i \in 1..Len(body) : body[i] \in DigitChars \cup {"."}
        /\ Cardinality({i \in 1..Len(body) : body[i] = "."}) <= 1
        /\ \E i \in 1..Len(body) : body[i] \in DigitChars

\* The result the contract expects: the value rounded to cents when it lies
\* in (0, 1,000,000], invalid otherwise.
C6_Expected(text) ==
    LET s      == C6_Cleaned(text)
        body   == IF s # <<>> /\ s[1] \in {"+", "-"} THEN Tail(s) ELSE s
        point  == {i \in 1..Len(body) : body[i] = "."}
        scale  == IF point = {} THEN 0 ELSE Len(body) - (CHOOSE i \in point : TRUE)
        digits == DigitsValue(SelectSeq(body, LAMBDA c : c \in DigitChars))
    IN  IF ~C6_IsNumeral(s) THEN None
        ELSE IF s[1] = "-" \/ digits = 0 THEN None
        ELSE IF digits > 1000000 * Pow10(scale) THEN None
        ELSE Float(round2(digits, scale))

\* C6: for every amount text the parser returns the value rounded to two
\* decimals when the numeric value is in (0, 1,000,000], and invalid for 0,
\* negative values, non-numeric text and values above 1,000,000.
C6_ParserContract ==
    parsed # Unparsed => parsed = C6_Expected(amount_text)

(***************************************************************************)
(* Claims about the dialogue, one event at a time (Spec).                  *)
(***************************************************************************)
\* A text the amount contract accepts: its value lies in (0, 1,000,000].
ValidAmountText(text) == C6_Expected(strip(text)) # None

\* The step is the handling of this event of user u.
TextStep(u, text) ==
    /\ outbox' # <<>> /\ outbox'[1].to = u
    /\ TextMessage(u, text, outbox'[1].sent)

SelectionStep(u, payload) ==
    /\ outbox' # <<>> /\ outbox'[1].to = u
    /\ \/ QuickReply(u, payload, outbox'[1].sent)
       \/ Postback(u, payload, outbox'[1].sent)

\* The step appends exactly this one row to Data_Log.
Appends(row) == data_log' = [data_log EXCEPT !.rows = Append(@, row)]

\* C1: a complete expense flow of one user (start expense, category
\* selection, description of at least 2 trimmed characters, valid amount with
\* the append succeeding): the start and the selection steps append nothing
\* and store the selected category and the entered description; the amount
\* step appends exactly one record, of type expense, with that category,
\* that description and the parsed amount, and leaves the session IDLE with
\* empty pending data.
C1_ExpenseFlow ==
    [][\A u \in Users :
        LET state  == _get_conversation_state(conversation_states, u)
            data   == _get_conversation_data(conversation_states, u)
            state_ == _get_conversation_state(conversation_states', u)
            data_  == _get_conversation_data(conversation_states', u)
        IN  /\ (state = IDLE /\ SelectionStep(u, LOG_EXPENSE))
                => /\ state_ = WAITING_EXPENSE_CATEGORY
                   /\ data_log' = data_log
            /\ (state = WAITING_EXPENSE_CATEGORY /\ SelectionStep(u, CATEGORY_FOOD))
                => /\ state_ = WAITING_EXPENSE_DESCRIPTION
                   /\ dict_get(data_, "expense_category", "") = "Food"
                   /\ data_log' = data_log
            /\ \A text \in Texts :
                (/\ state = WAITING_EXPENSE_DESCRIPTION
                 /\ Len(strip(text)) >= 2
                 /\ TextStep(u, text))
                => /\ state_ = WAITING_EXPENSE_AMOUNT
                   /\ dict_get(data_, "expense_description", "") = strip(text)
                   /\ dict_get(data_, "expense_category", "")
                        = dict_get(data, "expense_category", "")
                   /\ data_log' = data_log
            /\ \A text \in Texts :
                (/\ state = WAITING_EXPENSE_AMOUNT
                 /\ ValidAmountText(text)
                 /\ TextStep(u, text)
                 /\ data_log' # data_log)
                => /\ Appends([transaction_type   |-> "expense",
                               category_or_source |-> data.expense_category,
                               description        |-> data.expense_description,
                               amount             |-> C6_Expected(strip(text)),
                               user_id            |-> u])
                   /\ state_ = IDLE
                   /\ data_ = EmptyDict
                   /\ outbox'[1].msg = ExpenseConfirmation
      ]_vars

\* A reached end of a complete expense flow: Food, "hi", 150 pesos logged.
C1_Witness ==
    /\ outbox # <<>> /\ outbox[1].msg = ExpenseConfirmation
    /\ data_log.rows # <<>>
    /\ data_log.rows[Len(data_log.rows)]
         = [transaction_type   |-> "expense",
            category_or_source |-> "Food",
            description        |-> <<"h","i">>,
            amount             |-> Float(15000),
            user_id            |-> "u1"]
    /\ _get_conversation_state(conversation_states, "u1") = IDLE
    /\ _get_conversation_data(conversation_states, "u1") = EmptyDict

\* The record an amount step in `state` writes from the pending data.
PendingRecord(state, data, amount, u) ==
    IF state = WAITING_EXPENSE_AMOUNT
    THEN [transaction_type   |-> "expense",
          category_or_source |-> dict_get(data, "expense_category", ""),
          description        |-> dict_get(data, "expense_description", ""),
          amount             |-> amount,
          user_id            |-> u]
    ELSE [transaction_type   |-> "income",
          category_or_source |-> dict_get(data, "income_source", ""),
          description        |-> dict_get(data, "income_description", ""),
          amount             |-> amount,
          user_id            |-> u]

\* C2: when a valid amount is submitted in WAITING_EXPENSE_AMOUNT or
\* WAITING_INCOME_AMOUNT and nothing is appended (the append failed), the
\* session keeps its state and its pending data and the user is sent the
\* storage error; and when the next valid amount after such a failure is
\* appended, the record carries the category/source and the description
\* entered before the failure, and the answer is the confirmation, not a
\* prompt.
C2_AppendFailureKeepsSession ==
    [][\A u \in Users :
        LET state == _get_conversation_state(conversation_states, u)
            data  == _get_conversation_data(conversation_states, u)
        IN  \A text \in Texts :
            /\ (/\ state \in AmountStates
                /\ ValidAmountText(text)
                /\ TextStep(u, text)
                /\ data_log' = data_log)
                => /\ conversation_states' = conversation_states
                   /\ outbox'[1].msg = "error_sheets_error"
            /\ (/\ state \in AmountStates
                /\ outbox # <<>>
                /\ outbox[1].to = u
                /\ outbox[1].msg = "error_sheets_error"
                /\ ValidAmountText(text)
                /\ TextStep(u, text)
                /\ data_log' # data_log)
                => /\ Appends(PendingRecord(state, data, C6_Expected(strip(text)), u))
                   /\ outbox'[1].msg \in {ExpenseConfirmation, IncomeConfirmation}
                   /\ _get_conversation_state(conversation_states', u) = IDLE
      ]_vars

\* A reached state right after a failed append: the storage error was sent,
\* nothing was logged, and the session still waits for the amount with the
\* category and the description it had.
C2_Witness ==
    /\ outbox # <<>> /\ outbox[1].msg = "error_sheets_error"
    /\ data_log.rows = <<>>
    /\ _get_conversation_state(conversation_states, "u1") = WAITING_EXPENSE_AMOUNT
    /\ _get_conversation_data(conversation_states, "u1")
         = [expense_category |-> "Food", expense_description |-> <<"h","i">>]

\* C8: a complete income flow of one user (start income, source selection,
\* description of at least 2 trimmed characters, valid amount with the
\* append succeeding): the start and the selection steps append nothing and
\* store the selected source and the entered description; the amount step
\* appends exactly one record, of type income, whose category_or_source is
\* the selected source, sends the confirmation, and leaves the session IDLE
\* with empty pending data.
C8_IncomeFlow ==
    [][\A u \in Users :
        LET state  == _get_conversation_state(conversation_states, u)
            data   == _get_conversation_data(conversation_states, u)
            state_ == _get_conversation_state(conversation_states', u)
            data_  == _get_conversation_data(conversation_states', u)
        IN  /\ (state = IDLE /\ SelectionStep(u, LOG_INCOME))
                => /\ state_ = WAITING_INCOME_SOURCE
                   /\ data_log' = data_log
            /\ (state = WAITING_INCOME_SOURCE /\ SelectionStep(u, SOURCE_SALARY))
                => /\ state_ = WAITING_INCOME_DESCRIPTION
                   /\ dict_get(data_, "income_source", "") = "Salary"
                   /\ data_log' = data_log
            /\ \A text \in Texts :
                (/\ state = WAITING_INCOME_DESCRIPTION
                 /\ Len(strip(text)) >= 2
                 /\ TextStep(u, text))
                => /\ state_ = WAITING_INCOME_AMOUNT
                   /\ dict_get(data_, "income_description", "") = strip(text)
                   /\ dict_get(data_, "income_source", "")
                        = dict_get(data, "income_source", "")
                   /\ data_log' = data_log
            /\ \A text \in Texts :
                (/\ state = WAITING_INCOME_AMOUNT
                 /\ ValidAmountText(text)
                 /\ TextStep(u, text)
                 /\ data_log' # data_log)
                => /\ Appends([transaction_type   |-> "income",
                               category_or_source |-> data.income_source,
                               description        |-> data.income_description,
                               amount             |-> C6_Expected(strip(text)),
                               user_id            |-> u])
                   /\ state_ = IDLE
                   /\ data_ = EmptyDict
                   /\ outbox'[1].msg = IncomeConfirmation
      ]_vars

\* A reached end of a complete income flow: Salary, "hi", 150 pesos logged.
C8_Witness ==
    /\ outbox # <<>> /\ outbox[1].msg = IncomeConfirmation
    /\ data_log.rows # <<>>
    /\ data_log.rows[Len(data_log.rows)]
         = [transaction_type   |-> "income",
            category_or_source |-> "Salary",
            description        |-> <<"h","i">>,
            amount             |-> Float(15000),
            user_id            |-> "u1"]
    /\ _get_conversation_state(conversation_states, "u1") = IDLE
    /\ _get_conversation_data(conversation_states, "u1") = EmptyDict

\* C9: a description of fewer than 2 trimmed characters in a description
\* state, or an amount text the parser rejects in an amount state, leaves
\* the state and the pending data unchanged, appends no record, and is
\* answered with the missing-description / invalid-amount message.
C9_ValidationErrorInPlace ==
    [][\A u \in Users :
        LET state == _get_conversation_state(conversation_states, u)
        IN  \A text \in Texts :
            /\ (/\ state \in {WAITING_EXPENSE_DESCRIPTION, WAITING_INCOME_DESCRIPTION}
                /\ Len(strip(text)) < 2
                /\ TextStep(u, text))
                => /\ conversation_states' = conversation_states
                   /\ data_log' = data_log
                   /\ outbox'[1].msg = "error_missing_description"
            /\ (/\ state \in AmountStates
                /\ _parse_amount(strip(text)) = None
                /\ TextStep(u, text))
                => /\ conversation_states' = conversation_states
                   /\ data_log' = data_log
                   /\ outbox'[1].msg = "error_invalid_amount"
      ]_vars

\* A reached state right after a rejected amount: the invalid-amount
\* message was sent and the session still waits for the amount.
C9_Witness ==
    /\ outbox # <<>> /\ outbox[1].msg = "error_invalid_amount"
    /\ data_log.rows = <<>>
    /\ _get_conversation_state(conversation_states, "u1") = WAITING_INCOME_AMOUNT
    /\ _get_conversation_data(conversation_states, "u1")
         = [income_source |-> "Salary", income_description |-> <<"h","i">>]

\* The waiting states that expect a selection, and the prompt of each.
SelectionStates ==
    {WAITING_EXPENSE_CATEGORY, WAITING_INCOME_SOURCE, WAITING_STATS_PERIOD}

PromptOf(state) ==
    CASE state = WAITING_EXPENSE_CATEGORY -> CategoryPrompt
      [] state = WAITING_INCOME_SOURCE -> SourcePrompt
      [] state = WAITING_STATS_PERIOD -> PeriodPrompt

\* A text with none of the keywords the idle handler looks for.
UnmatchedText(text) ==
    ~any_in(lower(strip(text)),
            GreetingWords \cup ExpenseWords \cup IncomeWords \cup StatsWords
              \cup HelpWords)

\* C10 as stated: unmatched text arriving in IDLE stays in IDLE; free text
\* arriving in a state that expects a selection leaves the session in that
\* state, with its pending data, and is answered with that state's prompt.
C10_TextInSelectionStateStays ==
    [][\A u \in Users :
        LET state  == _get_conversation_state(conversation_states, u)
            state_ == _get_conversation_state(conversation_states', u)
        IN  \A text \in Texts :
            /\ (state = IDLE /\ UnmatchedText(text) /\ TextStep(u, text))
                => state_ = IDLE
            /\ (state \in SelectionStates /\ TextStep(u, text))
                => /\ state_ = state
                   /\ _get_conversation_data(conversation_states', u)
                        = _get_conversation_data(conversation_states, u)
                   /\ outbox'[1].msg = PromptOf(state)
      ]_vars

\* C10 amended: unmatched text arriving in IDLE leaves the session as it is
\* and is answered with the welcome menu; free text arriving in a state that
\* expects a selection resets the session to IDLE with empty pending data
\* and is answered with the welcome menu, not a re-prompt; neither appends a
\* record.
C10_TextInSelectionStateResets ==
    [][\A u \in Users :
        LET state  == _get_conversation_state(conversation_states, u)
            state_ == _get_conversation_state(conversation_states', u)
        IN  \A text \in Texts :
            /\ (state = IDLE /\ UnmatchedText(text) /\ TextStep(u, text))
                => /\ conversation_states' = conversation_states
                   /\ outbox'[1].msg = WelcomeMenu
                   /\ data_log' = data_log
            /\ (state \in SelectionStates /\ TextStep(u, text))
                => /\ state_ = IDLE
                   /\ _get_conversation_data(conversation_states', u) = EmptyDict
                   /\ outbox'[1].msg = WelcomeMenu
                   /\ data_log' = data_log
      ]_vars

\* A reached state right after a reset by the second event of a run: the
\* first event opened a selection state, the second one (a free text among
\* them) put the session back to IDLE and showed the menu.
C10_Witness ==
    /\ events = 2
    /\ outbox # <<>> /\ outbox[1].msg = WelcomeMenu
    /\ "u1" \in DOMAIN conversation_states
    /\ conversation_states["u1"] = [state |-> IDLE, data |-> EmptyDict]

\* The tags the bot offers.
OfferedPayloads ==
    {LOG_EXPENSE, LOG_INCOME, VIEW_STATS, GET_STARTED}
      \cup EXPENSE_CATEGORIES \cup INCOME_SOURCES \cup STATS_PERIODS

\* C5: in every state, a selection (quick reply or postback) whose tag is
\* not one the bot offers leaves the state and the pending data as they
\* were, appends nothing, and is answered with the general error only.
C5_UnrecognizedSelectionIgnored ==
    [][\A u \in Users :
        \A payload \in Payloads \ OfferedPayloads :
            SelectionStep(u, payload)
            => /\ _get_conversation_state(conversation_states', u)
                    = _get_conversation_state(conversation_states, u)
               /\ _get_conversation_data(conversation_states', u)
                    = _get_conversation_data(conversation_states, u)
               /\ data_log' = data_log
               /\ outbox'[1].msg = "error_general"
      ]_vars

\* C7: every record in the transaction log has type income or expense, an
\* amount in (0, 1,000,000] with at most two decimals, a non-empty
\* category_or_source, and a description of at least 2 trimmed characters.
C7_RecordsValid ==
    \A i \in 1..Len(data_log.rows) :
        LET row == data_log.rows[i]
        IN  /\ row.transaction_type \in {"income", "expense"}
            /\ row.amount.kind = "float"
            /\ row.amount.cents > 0
            /\ row.amount.cents <= 1000000 * 100
            /\ row.category_or_source # ""
            /\ Len(strip(row.description)) >= 2

(***************************************************************************)
(* Claims about the threaded server (SpecThreads).                         *)
(***************************************************************************)
\* C3: two amount messages of one user handled concurrently while that
\* user's session is in WAITING_EXPENSE_AMOUNT never both observe
\* WAITING_EXPENSE_AMOUNT and both finalize: no two threads have, at the
\* same time, each appended a record for the same user's expense flow.
C3_AtMostOneFinalize ==
    \A t1, t2 \in Threads :
        t1 # t2 =>
            ~(/\ threads[t1].pc = "logged" /\ threads[t2].pc = "logged"
              /\ threads[t1].user_id = threads[t2].user_id
              /\ threads[t1].state = WAITING_EXPENSE_AMOUNT
              /\ threads[t2].state = WAITING_EXPENSE_AMOUNT
              /\ threads[t1].success /\ threads[t2].success)

\* The session entry of user u as it is stored, if any.
Entry(cs, u) == IF u \in DOMAIN cs THEN <<cs[u]>> ELSE <<>>

\* The stored pending data of user u.
StoredData(cs, u) ==
    IF u \in DOMAIN cs /\ "data" \in DOMAIN cs[u] THEN cs[u]["data"] ELSE EmptyDict

\* The world with the sessions of all users but u removed.
Alone(u) ==
    [cs     |-> [v \in DOMAIN conversation_states \cap {u} |-> conversation_states[v]],
     log    |-> data_log,
     report |-> formatted_report]

\* The step is a step of the handling of an event of user u.
StepOf(u) ==
    \/ \E t \in Threads :
          /\ threads[t].pc # "idle" /\ threads[t].user_id = u
          /\ threads'[t] # threads[t]
    \/ /\ threads' = threads
       /\ outbox' # <<>> /\ outbox'[1].to = u
       /\ \E payload \in ThreadPayloads, postback \in BOOLEAN :
              Selection(u, payload, postback, outbox'[1].sent)

\* C4: with the events of two users interleaved in any way, (1) the session
\* of a user changes only in steps that handle that user's own events,
\* (2) a step that runs a text handler for user u to its end leaves u's
\* session and sends the answer exactly as it would with every other
\* user's session absent, and (3) every record appended carries the user id
\* of the thread that appends it and the category/source and description
\* held in that user's own session (the handler's defaults where the
\* session holds none).
C4_UsersIsolated ==
    [][/\ \A v \in Users :
            Entry(conversation_states', v) # Entry(conversation_states, v)
            => StepOf(v)
       /\ \A t \in Threads :
            (threads[t].pc = "dispatched" /\ threads'[t] = IdleThread)
            => LET th == threads[t]
                   r  == _dispatch_text(Alone(th.user_id), th.user_id, th.text,
                                        th.state, AllOk)
               IN  /\ Entry(conversation_states', th.user_id) = Entry(r.cs, th.user_id)
                   /\ outbox'[1].to = th.user_id
                   /\ outbox'[1].msg = r.msg
       /\ data_log' # data_log
            => \E t \in Threads :
                 /\ threads[t].pc = "dispatched" /\ threads'[t].pc = "logged"
                 /\ LET th   == threads[t]
                        data == StoredData(conversation_states, th.user_id)
                    IN  Appends(
                          IF th.state = WAITING_EXPENSE_AMOUNT
                          THEN [transaction_type   |-> "expense",
                                category_or_source |->
                                    dict_get(data, "expense_category", "Other"),
                                description        |->
                                    dict_get(data, "expense_description",
                                             DefaultExpenseDescription),
                                amount             |-> _parse_amount(th.text),
                                user_id            |-> th.user_id]
                          ELSE [transaction_type   |-> "income",
                                category_or_source |->
                                    dict_get(data, "income_source", "Other"),
                                description        |->
                                    dict_get(data, "income_description",
                                             DefaultIncomeDescription),
                                amount             |-> _parse_amount(th.text),
                                user_id            |-> th.user_id])
      ]_vars

\* A reached state where u1's expense was logged from u1's own entries while
\* u2 is in the middle of an income flow with its own pending source.
C4_Witness ==
    /\ data_log.rows
         = <<[transaction_type   |-> "expense",
              category_or_source |-> "Food",
              description        |-> <<"h","i">>,
              amount             |-> Float(15000),
              user_id            |-> "u1"]>>
    /\ "u2" \in DOMAIN conversation_states
    /\ conversation_states["u2"]
         = [state |-> WAITING_INCOME_DESCRIPTION, data |-> [income_source |-> "Salary"]]
    /\ _get_conversation_state(conversation_states, "u1") = IDLE

(***************************************************************************)
(* Restart, abandoned flows and failures of the collaborators (Spec).      *)
(***************************************************************************)
\* C11: from every state, a selection with the tag GET_STARTED, arriving as
\* a postback or as a quick reply, sets the session to IDLE with empty
\* pending data and is answered with the welcome menu.
C11_RestartFromEveryForm ==
    [][\A u \in Users :
        SelectionStep(u, GET_STARTED)
        => /\ _get_conversation_state(conversation_states', u) = IDLE
           /\ _get_conversation_data(conversation_states', u) = EmptyDict
           /\ outbox'[1].msg = WelcomeMenu
      ]_vars

\* The states in which a flow is under way.
WaitingStates ==
    {WAITING_EXPENSE_CATEGORY, WAITING_EXPENSE_DESCRIPTION, WAITING_EXPENSE_AMOUNT,
     WAITING_INCOME_SOURCE, WAITING_INCOME_DESCRIPTION, WAITING_INCOME_AMOUNT,
     WAITING_STATS_PERIOD}

\* C12: when a user in a waiting state starts another flow with LOG_EXPENSE,
\* LOG_INCOME or VIEW_STATS, the pending data is empty afterwards: no field
\* of the abandoned flow remains.
C12_AbandonedFlowCleared ==
    [][\A u \in Users :
        \A payload \in {LOG_EXPENSE, LOG_INCOME, VIEW_STATS} :
            (/\ _get_conversation_state(conversation_states, u) \in WaitingStates
             /\ SelectionStep(u, payload))
            => _get_conversation_data(conversation_states', u) = EmptyDict
      ]_vars

\* C13: when a period selection in WAITING_STATS_PERIOD is answered with
\* neither the report nor the "no transactions" text (the read failed), the
\* answer is a failure message and the session is reset to IDLE.
C13_ReadFailureResets ==
    [][\A u \in Users :
        \A payload \in STATS_PERIODS :
            (/\ _get_conversation_state(conversation_states, u) = WAITING_STATS_PERIOD
             /\ SelectionStep(u, payload)
             /\ outbox'[1].msg \notin {ReportText, NoTransactionsText})
            => /\ outbox'[1].msg \in {"error_general", "error_sheets_error"}
               /\ _get_conversation_state(conversation_states', u) = IDLE
      ]_vars

\* The view a successful rebuild leaves for this Data_Log.
RebuiltView(log) ==
    regenerate_formatted_report([log |-> log, report |-> 0], TRUE).report

\* C14: when the amount step of a flow appends its record and the rebuild of
\* the report view that follows fails (the view is not the one of the new
\* log), the user still gets the confirmation, never the storage error, and
\* the session is IDLE with empty pending data.
C14_RebuildFailureKeepsFlow ==
    [][\A u \in Users :
        \A text \in Texts :
            (/\ _get_conversation_state(conversation_states, u)
                    \in {WAITING_EXPENSE_AMOUNT, WAITING_INCOME_AMOUNT}
             /\ TextStep(u, text)
             /\ Len(data_log'.rows) = Len(data_log.rows) + 1
             /\ formatted_report' # RebuiltView(data_log'))
            => /\ outbox'[1].msg \in {ExpenseConfirmation, IncomeConfirmation}
               /\ _get_conversation_state(conversation_states', u) = IDLE
               /\ _get_conversation_data(conversation_states', u) = EmptyDict
      ]_vars

\* A record was appended, the view was not rebuilt, the confirmation went out.
C14_Witness ==
    /\ outbox # <<>>
    /\ outbox[1].msg \in {ExpenseConfirmation, IncomeConfirmation}
    /\ Len(data_log.rows) = 1
    /\ formatted_report # RebuiltView(data_log)
    /\ _get_conversation_state(conversation_states, "u1") = IDLE

\* The step is the handling of an event that is neither text nor selection.
UnsupportedStep(u) ==
    /\ outbox' # <<>> /\ outbox'[1].to = u
    /\ UnsupportedMessage(u, outbox'[1].sent)

\* The session and the answer of the step are those of this handler result.
Handled(r) ==
    /\ conversation_states' = r.cs
    /\ outbox'[1].msg = r.msg

SelectionStepReadOk(u, payload) ==
    /\ SelectionStep(u, payload)
    /\ \/ Handled(_handle_quick_reply(World, u, payload, AllOk))
       \/ Handled(_handle_postback(World, u, payload, AllOk))

\* C16: in WAITING_STATS_PERIOD a selection of PERIOD_WEEK or PERIOD_MONTH
\* whose read succeeds is answered with the report when the user has
\* transactions and with the "no transactions" text when not, and in both
\* cases the session is IDLE with empty pending data afterwards.
C16_PeriodSelectionReports ==
    [][\A u \in Users :
        \A payload \in {PERIOD_WEEK, PERIOD_MONTH} :
            (/\ _get_conversation_state(conversation_states, u) = WAITING_STATS_PERIOD
             /\ SelectionStepReadOk(u, payload))
            => /\ outbox'[1].msg =
                     IF get_transactions_for_period(data_log, period_map(payload), u) = <<>>
                     THEN NoTransactionsText ELSE ReportText
               /\ _get_conversation_state(conversation_states', u) = IDLE
               /\ _get_conversation_data(conversation_states', u) = EmptyDict
               /\ data_log' = data_log
      ]_vars

\* The "no transactions" text was sent for an empty log and the session
\* is IDLE again.
C16_Witness ==
    /\ outbox # <<>>
    /\ outbox[1].msg = NoTransactionsText
    /\ data_log.rows = <<>>
    /\ events >= 2
    /\ "u1" \in DOMAIN conversation_states
    /\ _get_conversation_state(conversation_states, "u1") = IDLE
    /\ _get_conversation_data(conversation_states, "u1") = EmptyDict

(***************************************************************************)
(* Time (wallet_bot/utils/timezone.py).  A datetime is its wall clock, in  *)
(* hours since 2024-01-01 00:00 (a Monday), with its tzinfo: a timezone,   *)
(* or None for a naive datetime.                                           *)
(***************************************************************************)
\* timezone(timedelta(hours=hours))
timezone(hours) == [kind |-> "timezone", hours |-> hours]

MANILA_TIMEZONE == timezone(8)

\* datetime(...): a wall clock with its tzinfo
datetime(wall, tzinfo) == [wall |-> wall, tzinfo |-> tzinfo]

\* datetime.now(): the wall clock of the machine's local zone, naive
datetime_now == datetime(instant + local_tz, None)

\* now_manila(): datetime.now(MANILA_TIMEZONE)
now_manila == datetime(instant + MANILA_TIMEZONE.hours, MANILA_TIMEZONE)

\* dt.astimezone(tz) of an aware datetime
astimezone(dt, tz) == datetime(dt.wall - dt.tzinfo.hours + tz.hours, tz)

\* dt.replace(tzinfo=tz)
replace_tzinfo(dt, tz) == datetime(dt.wall, tz)

\* dt.weekday(): Monday is 0
weekday(dt) == (dt.wall \div 24) % 7

\* dt - timedelta(days=days)
minus_days(dt, days) == [dt EXCEPT !.wall = @ - 24 * days]

\* dt.replace(hour=0, minute=0, second=0, microsecond=0)
replace_midnight(dt) == [dt EXCEPT !.wall = @ - (@ % 24)]

\* The first days of the months of 2024, in days since 1 January.
MonthFirstDays == {0, 31, 60, 91, 121}

\* dt.replace(day=1, hour=0, minute=0, second=0, microsecond=0)
replace_day1_midnight(dt) ==
    LET first == CHOOSE d \in MonthFirstDays :
                     /\ 24 * d <= dt.wall
                     /\ \A e \in MonthFirstDays : 24 * e <= dt.wall => e <= d
    IN  [dt EXCEPT !.wall = 24 * first]

\* The conversion both helpers start with: a naive datetime is taken as UTC.
as_manila(dt) ==
    IF dt.tzinfo = None
    THEN astimezone(replace_tzinfo(dt, timezone(0)), MANILA_TIMEZONE)
    ELSE IF dt.tzinfo # MANILA_TIMEZONE THEN astimezone(dt, MANILA_TIMEZONE)
    ELSE dt

\* get_week_start_manila(dt)
get_week_start_manila(dt) ==
    LET dt1 == as_manila(dt)
    IN  replace_midnight(minus_days(dt1, weekday(dt1)))

\* get_month_start_manila(dt)
get_month_start_manila(dt) == replace_day1_midnight(as_manila(dt))

(***************************************************************************)
(* The period filter of the sheet handler (wallet_bot/sheets/handler.py).  *)
(* A DataFrame is the sequence of its rows.                                *)
(***************************************************************************)
\* The cutoff of _filter_transactions_by_period_fixed, None for a period it
\* does not know.
cutoff_naive(period_) ==
    LET now_manila_time == now_manila
        cutoff == IF period_ = "Today" THEN replace_midnight(now_manila_time)
                  ELSE IF period_ = "This Week" THEN get_week_start_manila(now_manila_time)
                  ELSE IF period_ = "This Month" THEN get_month_start_manila(now_manila_time)
                  ELSE None
    IN  IF cutoff = None THEN None ELSE replace_tzinfo(cutoff, None)

_filter_transactions_by_period_fixed(df, period_) ==
    IF cutoff_naive(period_) = None THEN df
    ELSE SelectSeq(df, LAMBDA row : row.timestamp >= cutoff_naive(period_).wall)

(***************************************************************************)
(* The report engine (wallet_bot/analytics/generator.py).  Amounts are      *)
(* whole pesos and sums are exact; a quotient is kept as a fraction.       *)
(***************************************************************************)
\* pd.to_numeric(amount, errors='coerce') and fillna(0.0)
to_numeric_fillna(amount) == IF amount \in Int THEN amount ELSE 0

\* str.lower() of the type names in use
str_lower(s) ==
    IF s = "Income" THEN "income" ELSE IF s = "Expense" THEN "expense" ELSE s

\* The cutoff of _filter_by_period, computed from the machine's wall clock.
cutoff_date(period_) ==
    LET now == datetime_now
    IN  IF period_ = "This Week" THEN replace_midnight(minus_days(now, weekday(now)))
        ELSE IF period_ = "This Month" THEN replace_day1_midnight(now)
        ELSE minus_days(now, 7)

_filter_by_period(df, period_) ==
    IF df = <<>> THEN df
    ELSE SelectSeq(df, LAMBDA row : row.timestamp >= cutoff_date(period_).wall)

\* One row of the DataFrame: the required columns, '' for a missing one.
dataframe_row(t) ==
    [timestamp   |-> t.timestamp,
     type        |-> dict_get(t, "type", ""),
     amount      |-> to_numeric_fillna(dict_get(t, "amount", "")),
     category    |-> dict_get(t, "category", ""),
     description |-> dict_get(t, "description", "")]

_prepare_dataframe(transactions_, period_) ==
    IF transactions_ = <<>> THEN <<>>
    ELSE _filter_by_period([i \in 1..Len(transactions_) |-> dataframe_row(transactions_[i])],
                           period_)

RECURSIVE amount_sum(_)
\* df['amount'].sum()
amount_sum(df) ==
    IF df = <<>> THEN 0 ELSE Head(df).amount + amount_sum(Tail(df))

income_df(df) == SelectSeq(df, LAMBDA row : str_lower(row.type) = "income")

expense_df(df) == SelectSeq(df, LAMBDA row : str_lower(row.type) = "expense")

_calculate_total_income(df) == amount_sum(income_df(df))

\* A slip: every row is summed, whatever its type.
_calculate_total_expenses_all_rows(df) == amount_sum(df)

_calculate_total_expenses(df) == amount_sum(expense_df(df))

\* Series.idxmax(): the first position holding the largest value
idxmax(values) ==
    CHOOSE i \in 1..Len(values) :
        /\ \A j \in 1..Len(values) : values[j] <= values[i]
        /\ \A j \in 1..(i - 1) : values[j] < values[i]

\* A slip: of several largest expenses the last one is taken.
_find_biggest_expense_last(df) ==
    LET e == expense_df(df)
    IN  IF e = <<>> THEN None
        ELSE LET last == CHOOSE i \in 1..Len(e) :
                             /\ \A j \in 1..Len(e) : e[j].amount <= e[i].amount
                             /\ \A j \in (i + 1)..Len(e) : e[j].amount < e[i].amount
             IN  [amount      |-> e[last].amount,
                  description |-> e[last].description,
                  category    |-> e[last].category]

_find_biggest_expense(df) ==
    LET e == expense_df(df)
    IN  IF e = <<>> THEN None
        ELSE LET biggest == e[idxmax([i \in 1..Len(e) |-> e[i].amount])]
             IN  [amount      |-> biggest.amount,
                  description |-> biggest.description,
                  category    |-> biggest.category]

\* The category names in use, in the order groupby sorts its keys.
SortedCategories ==
    <<"", "Bills", "Business", "Food", "Freelance", "Gift", "Health", "Salary",
      "Transport">>

\* A slip: the groups come in the order their category first appears.
groupby_category_sum_unsorted(df) ==
    LET firsts == SelectSeq([i \in 1..Len(df) |-> i],
                      LAMBDA i : \A j \in 1..(i - 1) : df[j].category # df[i].category)
    IN  [k \in 1..Len(firsts) |->
            [category |-> df[firsts[k]].category,
             amount   |-> amount_sum(SelectSeq(df,
                              LAMBDA row : row.category = df[firsts[k]].category))]]

\* df.groupby('category')['amount'].sum(): one entry per category present,
\* the keys sorted.
groupby_category_sum(df) ==
    LET present == SelectSeq(SortedCategories,
                       LAMBDA c : \E i \in 1..Len(df) : df[i].category = c)
    IN  [k \in 1..Len(present) |->
            [category |-> present[k],
             amount   |-> amount_sum(SelectSeq(df, LAMBDA row : row.category = present[k]))]]

_find_top_expense_category(df) ==
    LET e == expense_df(df)
    IN  IF e = <<>> THEN None
        ELSE LET category_totals == groupby_category_sum(e)
                 top == idxmax([k \in 1..Len(category_totals) |-> category_totals[k].amount])
             IN  [category |-> category_totals[top].category,
                  amount   |-> category_totals[top].amount]

RECURSIVE sort_values_descending(_)
\* Series.sort_values(ascending=False): largest first, equal sums in the
\* order of the keys
sort_values_descending(totals) ==
    IF totals = <<>> THEN <<>>
    ELSE LET top == idxmax([k \in 1..Len(totals) |-> totals[k].amount])
         IN  <<totals[top]>> \o
             sort_values_descending(
                 [k \in 1..(Len(totals) - 1) |->
                     IF k < top THEN totals[k] ELSE totals[k + 1]])

_get_income_breakdown(df) == sort_values_descending(groupby_category_sum(income_df(df)))

_get_expense_breakdown(df) == sort_values_descending(groupby_category_sum(expense_df(df)))

\* One line of the report text: what it says and the value it shows.
Line(line, value) == [line |-> line, value |-> value]

\* A slip: every entry of the breakdown is shown.
top3_lines_all(breakdown) ==
    [k \in 1..Len(breakdown) |-> Line(breakdown[k].category, breakdown[k].amount)]

\* breakdown[:3] as lines
top3_lines(breakdown) ==
    [k \in 1..(IF Len(breakdown) < 3 THEN Len(breakdown) ELSE 3) |->
        Line(breakdown[k].category, breakdown[k].amount)]

\* A slip: the savings rate and the tithe are shown whatever the income.
_build_formatted_report_always_rates(v) ==
    <<Line("Financial Summary", v.period),
      Line("Total Income", v.income_total),
      Line("Total Expenses", v.expense_total),
      Line("Net Savings", v.net_savings),
      Line("Savings Rate", v.savings_rate),
      Line("Transactions Logged", v.transaction_count),
      Line("Suggested Tithe (10%)", v.tithe_recommendation)>>

\* _build_formatted_report(...): the lines of the report text, in order (the
\* separator and the empty lines are left out).
_build_formatted_report(v) ==
    <<Line("Financial Summary", v.period),
      Line("OVERVIEW", ""),
      Line("Total Income", v.income_total),
      Line("Total Expenses", v.expense_total),
      Line("Net Savings", v.net_savings)>>
    \o (IF v.income_total > 0 THEN <<Line("Savings Rate", v.savings_rate)>> ELSE <<>>)
    \o <<Line("Transactions Logged", v.transaction_count)>>
    \o (IF v.income_breakdown # <<>>
        THEN <<Line("INCOME SOURCES", "")>> \o top3_lines(v.income_breakdown)
        ELSE <<>>)
    \o (IF v.expense_breakdown # <<>>
        THEN <<Line("EXPENSE CATEGORIES", "")>> \o top3_lines(v.expense_breakdown)
        ELSE <<>>)
    \o <<Line("KEY INSIGHTS", "")>>
    \o (IF v.biggest_expense # None
        THEN <<Line("Biggest Expense", v.biggest_expense)>> ELSE <<>>)
    \o (IF v.top_expense_category # None
        THEN <<Line("Top Spending Category", v.top_expense_category)>> ELSE <<>>)
    \o (IF v.income_total > 0
        THEN <<Line("Suggested Tithe (10%)", v.tithe_recommendation)>> ELSE <<>>)
    \o <<Line("health", IF v.net_savings > 0 THEN "saving"
                        ELSE IF v.net_savings = 0 THEN "breaking even"
                        ELSE "spending more than you earn"),
         Line("footer", "")>>

\* A slip: totals are reported although the period filter kept no row.
generate_report_of_empty_frame(transactions_, period_) ==
    IF transactions_ = <<>> THEN [kind |-> "no_transactions_start_logging"]
    ELSE LET df == _prepare_dataframe(transactions_, period_)
         IN  [kind              |-> "summary",
              period            |-> period_,
              income_total      |-> _calculate_total_income(df),
              expense_total     |-> _calculate_total_expenses(df),
              transaction_count |-> Len(df)]

\* generate_report(transactions, period): the values the report text is
\* built from; the two short texts when nothing is in the period.
generate_report(transactions_, period_) ==
    IF transactions_ = <<>> THEN [kind |-> "no_transactions_start_logging"]
    ELSE LET df == _prepare_dataframe(transactions_, period_)
         IN  IF df = <<>> THEN [kind |-> "no_transactions"]
             ELSE LET income_total  == _calculate_total_income(df)
                      expense_total == _calculate_total_expenses(df)
                      net_savings   == income_total - expense_total
                      values ==
                      [kind                 |-> "summary",
                       period               |-> period_,
                       income_total         |-> income_total,
                       expense_total        |-> expense_total,
                       net_savings          |-> net_savings,
                       biggest_expense      |-> _find_biggest_expense(df),
                       top_expense_category |-> _find_top_expense_category(df),
                       income_breakdown     |-> _get_income_breakdown(df),
                       expense_breakdown    |-> _get_expense_breakdown(df),
                       tithe_recommendation |-> [num |-> income_total, den |-> 10],
                       savings_rate         |-> IF income_total > 0
                                                THEN [num |-> net_savings * 100, den |-> income_total]
                                                ELSE [num |-> 0, den |-> 1],
                       transaction_count    |-> Len(df)]
                  IN  values @@ [text |-> _build_formatted_report(values)]

(***************************************************************************)
(* The report engine on its own: a transaction list, a period, an instant  *)
(* and a machine zone are drawn, then the report and the cutoffs are       *)
(* computed.                                                               *)
(***************************************************************************)
MaxTransactions == 3

\* Instants around a week change and a month change in UTC+8:
\* Sun 28 Jan 2024 19:00 UTC (Mon 29 Jan 03:00 in UTC+8),
\* Tue 30 Jan 2024 04:00 UTC (Tue 30 Jan 12:00 in UTC+8),
\* Wed 31 Jan 2024 20:00 UTC (Thu 1 Feb 04:00 in UTC+8).
Instants == {667, 700, 740}

Transaction(timestamp, type, amount, category) ==
    [timestamp |-> timestamp, type |-> type, amount |-> amount,
     category |-> category, description |-> category]

\* Timestamps are wall-clock hours in UTC+8: Mon 29 Jan 00:00 is 672,
\* Thu 1 Feb 00:00 is 744.
SampleTransactions ==
    {Transaction(672, "income",  1000, "Salary"),
     Transaction(600, "income",  1000, "Salary"),
     Transaction(674, "expense",  300, "Food"),
     Transaction(674, "expense",  100, "Food"),
     Transaction(674, "expense",   50, "Food"),
     Transaction(674, "expense",   80, "Transport"),
     Transaction(744, "expense",  150, "Transport"),
     Transaction(671, "expense",  100, "Transport")}

\* Longer inputs: four expenses of four categories and four incomes of four
\* sources, dated Mon 29 Jan 02:00 (UTC+8), each in two orders.
WideTransactions ==
    LET expenses == <<Transaction(674, "expense", 40, "Bills"),
                      Transaction(674, "expense", 100, "Food"),
                      Transaction(674, "expense", 60, "Health"),
                      Transaction(674, "expense", 80, "Transport")>>
        incomes  == <<Transaction(674, "income", 500, "Business"),
                      Transaction(674, "income", 200, "Freelance"),
                      Transaction(674, "income", 50, "Gift"),
                      Transaction(674, "income", 1000, "Salary")>>
        reversed(l) == [k \in 1..Len(l) |-> l[Len(l) + 1 - k]]
    IN  {expenses, reversed(expenses), incomes, reversed(incomes)}

TransactionLists ==
    UNION {[1..n -> SampleTransactions] : n \in 0..MaxTransactions}
    \cup WideTransactions

InitReport ==
    /\ conversation_states = EmptyDict
    /\ data_log = [header |-> DATA_LOG_COLUMNS, rows |-> <<>>]
    /\ formatted_report = 0
    /\ outbox = <<>>
    /\ threads = [t \in Threads |-> IdleThread]
    /\ events = 0
    /\ amount_text = <<>>
    /\ parsed = None
    /\ instant \in Instants
    /\ local_tz \in {0, 8}       \* the machine runs in UTC or in UTC+8
    /\ transaction_list \in TransactionLists
    /\ report_period \in {"Today", "This Week", "This Month"}
    /\ report = NoReport
    /\ cutoffs = NoCutoffs
    /\ webhook_payload = [kind |-> "none"]
    /\ returned = [kind |-> "none"]
    /\ pending_call = [kind |-> "none"]

\* report = generate_report(transactions, period)
GenerateReport ==
    /\ report = NoReport
    /\ report' = generate_report(transaction_list, report_period)
    /\ UNCHANGED <<conversation_states, data_log, formatted_report, outbox,
                   threads, events, amount_text, parsed,
                   instant, local_tz, transaction_list, report_period, cutoffs,
                   webhook_vars>>

\* The cutoff of the period as each of the filters computes it, and the
\* rows the sheet filter keeps.
ComputeCutoffs ==
    /\ report # NoReport
    /\ cutoffs = NoCutoffs
    /\ cutoffs' = [kind      |-> "cutoffs",
                   sheet     |-> cutoff_naive(report_period),
                   generator |-> cutoff_date(report_period),
                   week      |-> get_week_start_manila(now_manila),
                   month     |-> get_month_start_manila(now_manila)]
    /\ UNCHANGED <<conversation_states, data_log, formatted_report, outbox,
                   threads, events, amount_text, parsed,
                   instant, local_tz, transaction_list, report_period, report,
                   webhook_vars>>

NextReport == GenerateReport \/ ComputeCutoffs

SpecReport == InitReport /\ [][NextReport]_vars

(***************************************************************************)
(* Claims about the report engine (SpecReport).                            *)
(***************************************************************************)
\* The wall clock of the instant in the UTC+8 civil calendar.
CivilNow == instant + 8

\* Monday 00:00 of the UTC+8 week, 00:00 of the UTC+8 day and 00:00 of day 1
\* of the UTC+8 month that contain the instant (hour 0 is a Monday 00:00).
CivilWeekStart == CivilNow - (CivilNow % 168)

CivilDayStart == CivilNow - (CivilNow % 24)

CivilMonthStart ==
    24 * (CHOOSE d \in MonthFirstDays :
              /\ 24 * d <= CivilNow
              /\ \A e \in MonthFirstDays : e > d => 24 * e > CivilNow)

\* The records of the input dated at or after the hour `start`.
DatedFrom(start) == SelectSeq(transaction_list, LAMBDA t : t.timestamp >= start)

RECURSIVE SumOfType(_, _)
\* The sum of the amounts of the records of this type.
SumOfType(records, type) ==
    IF records = <<>> THEN 0
    ELSE (IF Head(records).type = type THEN Head(records).amount ELSE 0)
         + SumOfType(Tail(records), type)

\* C17: generate_report(transactions, "This Week") counts exactly the records
\* whose timestamp is at or after Monday 00:00:00 (UTC+8) of the current week:
\* its totals and its transaction count are those of these records, and it
\* reports no transactions when there is none.
C17_ThisWeekRetainsCivilWeek ==
    (report # NoReport /\ report_period = "This Week")
    => LET kept == DatedFrom(CivilWeekStart)
       IN  IF kept = <<>> THEN report.kind # "summary"
           ELSE /\ report.kind = "summary"
                /\ report.transaction_count = Len(kept)
                /\ report.income_total = SumOfType(kept, "income")
                /\ report.expense_total = SumOfType(kept, "expense")

\* C18: for every instant and every machine zone, the cutoff each filter
\* computes is the start of the period in the UTC+8 civil calendar: Monday
\* 00:00 of the week containing the instant for "This Week", 00:00 of day 1
\* of the month for "This Month", 00:00 of the day for "Today".
C18_CutoffInCivilCalendar ==
    cutoffs # NoCutoffs
    => LET expected == IF report_period = "This Week" THEN CivilWeekStart
                       ELSE IF report_period = "This Month" THEN CivilMonthStart
                       ELSE CivilDayStart
       IN  /\ CivilWeekStart <= CivilNow /\ CivilNow < CivilWeekStart + 168
           /\ cutoffs.week.wall = CivilWeekStart
           /\ cutoffs.month.wall = CivilMonthStart
           /\ cutoffs.sheet.wall = expected
           /\ cutoffs.generator.wall = expected

\* The rows generate_report keeps for the report.
FilteredRecords == _prepare_dataframe(transaction_list, report_period)

\* C19: in every report, total income is the sum of the amounts of the
\* income records of the filtered set, total expense that of the expense
\* records, and net their difference; with a positive income the savings
\* rate is net / income * 100 and the tithe a tenth of the income (income
\* 1000 and expense 300 give net 700, rate 70 and tithe 100).
C19_Totals ==
    (report # NoReport /\ report.kind = "summary")
    => /\ report.income_total = SumOfType(FilteredRecords, "income")
       /\ report.expense_total = SumOfType(FilteredRecords, "expense")
       /\ report.net_savings = report.income_total - report.expense_total
       /\ report.income_total > 0
          => /\ report.savings_rate.num * report.income_total
                   = report.net_savings * 100 * report.savings_rate.den
             /\ report.tithe_recommendation.num * 10
                   = report.income_total * report.tithe_recommendation.den
       /\ (report.income_total = 1000 /\ report.expense_total = 300)
          => /\ report.net_savings = 700
             /\ report.savings_rate.num = 70 * report.savings_rate.den
             /\ report.tithe_recommendation.num = 100 * report.tithe_recommendation.den

\* Income 1000 and expense 300 were reported.
C19_Witness ==
    /\ report # NoReport
    /\ report.kind = "summary"
    /\ report.income_total = 1000
    /\ report.expense_total = 300

\* The summed amount of the expense records of this category.
CategoryTotal(records, category) ==
    SumOfType(SelectSeq(records, LAMBDA t : t.category = category), "expense")

\* The input in another order.
Reordered(p) == [i \in 1..Len(transaction_list) |-> transaction_list[p[i]]]

ExpensePositions == {i \in 1..Len(FilteredRecords) : FilteredRecords[i].type = "expense"}

\* C21: the biggest expense of a report is the expense record of the
\* filtered set with the largest amount, the first such record in input
\* order when several share that amount; it is absent exactly when the set
\* has no expense record.
C21_BiggestExpenseFirstMaximal ==
    (report # NoReport /\ report.kind = "summary")
    => IF ExpensePositions = {} THEN report.biggest_expense = None
       ELSE \E i \in ExpensePositions :
               /\ \A j \in ExpensePositions :
                      /\ FilteredRecords[j].amount <= FilteredRecords[i].amount
                      /\ j < i => FilteredRecords[j].amount < FilteredRecords[i].amount
               /\ report.biggest_expense =
                      [amount      |-> FilteredRecords[i].amount,
                       description |-> FilteredRecords[i].description,
                       category    |-> FilteredRecords[i].category]

\* Two expenses of different categories share the largest amount and the
\* report names the one that comes first in the input.
C21_Witness ==
    /\ report # NoReport
    /\ report.kind = "summary"
    /\ Len(FilteredRecords) = 3
    /\ FilteredRecords[1].type = "income"
    /\ FilteredRecords[2].category = "Transport" /\ FilteredRecords[2].amount = 100
    /\ FilteredRecords[3].category = "Food" /\ FilteredRecords[3].amount = 100
    /\ report.biggest_expense.category = "Transport"

\* The report text has a line of this name.
HasLine(name) == \E k \in 1..Len(report.text) : report.text[k].line = name

\* C22: the report text has the savings-rate line and the tithe line exactly
\* when total income is positive, each showing the computed value; with no
\* income both are left out and the rate is computed without dividing by
\* zero.
C22_RateLinesIffIncome ==
    (report # NoReport /\ report.kind = "summary")
    => /\ HasLine("Savings Rate") <=> report.income_total > 0
       /\ HasLine("Suggested Tithe (10%)") <=> report.income_total > 0
       /\ report.savings_rate.den # 0
       /\ \A k \in 1..Len(report.text) :
              /\ report.text[k].line = "Savings Rate"
                 => report.text[k].value = report.savings_rate
              /\ report.text[k].line = "Suggested Tithe (10%)"
                 => report.text[k].value = report.tithe_recommendation

\* A report of expenses only: no income, and neither line in the text.
C22_Witness ==
    /\ report # NoReport
    /\ report.kind = "summary"
    /\ report.income_total = 0
    /\ report.expense_total > 0
    /\ ~HasLine("Savings Rate")
    /\ ~HasLine("Suggested Tithe (10%)")
    /\ HasLine("Total Expenses")

\* The summed amount of the records of this type and category.
TypeCategoryTotal(type, category) ==
    SumOfType(SelectSeq(FilteredRecords, LAMBDA t : t.category = category), type)

\* The breakdown has one entry for each category of a record of this type,
\* with the sum of that category, and its sums never increase.
IsBreakdown(breakdown, type) ==
    /\ {breakdown[k].category : k \in 1..Len(breakdown)}
           = {FilteredRecords[i].category :
                  i \in {i \in 1..Len(FilteredRecords) : FilteredRecords[i].type = type}}
    /\ \A k \in 1..Len(breakdown) :
           /\ breakdown[k].amount = TypeCategoryTotal(type, breakdown[k].category)
           /\ \A l \in 1..(k - 1) : /\ breakdown[l].category # breakdown[k].category
                                    /\ breakdown[l].amount >= breakdown[k].amount

\* The section of the text under this header shows the first 3 entries of
\* the breakdown (all of them when there are fewer), in order, and no more;
\* there is no such section when the breakdown is empty.
ShowsTop3(header, breakdown) ==
    LET shown == IF Len(breakdown) < 3 THEN Len(breakdown) ELSE 3
    IN  IF breakdown = <<>> THEN ~HasLine(header)
        ELSE \E k \in 1..Len(report.text) :
                /\ report.text[k].line = header
                /\ \A j \in 1..shown :
                       /\ report.text[k + j].line = breakdown[j].category
                       /\ report.text[k + j].value = breakdown[j].amount
                /\ report.text[k + shown + 1].line \in {"EXPENSE CATEGORIES", "KEY INSIGHTS"}

\* C23: the income breakdown holds the sum of each source and the expense
\* breakdown the sum of each category, each ordered by non-increasing sum,
\* and the report text shows the first 3 entries of each at most.
C23_BreakdownsSortedTop3 ==
    (report # NoReport /\ report.kind = "summary")
    => /\ IsBreakdown(report.income_breakdown, "income")
       /\ IsBreakdown(report.expense_breakdown, "expense")
       /\ ShowsTop3("INCOME SOURCES", report.income_breakdown)
       /\ ShowsTop3("EXPENSE CATEGORIES", report.expense_breakdown)

\* Four expense categories were summed and the text shows three of them.
C23_Witness ==
    /\ report # NoReport
    /\ report.kind = "summary"
    /\ Len(report.expense_breakdown) = 4
    /\ report.expense_breakdown[1] = [category |-> "Food", amount |-> 100]
    /\ report.expense_breakdown[4] = [category |-> "Bills", amount |-> 40]
    /\ HasLine("Health")
    /\ ~HasLine("Bills")

\* C24: when the input is empty or the period filter keeps none of its
\* records, generate_report returns one of the two short "no transactions"
\* texts and nothing else, no total being computed; it returns the full
\* report exactly when a record is kept.
C24_NoTransactionsShortCircuit ==
    report # NoReport
    => /\ transaction_list = <<>> => report = [kind |-> "no_transactions_start_logging"]
       /\ (transaction_list # <<>> /\ FilteredRecords = <<>>)
          => report = [kind |-> "no_transactions"]
       /\ FilteredRecords # <<>> => report.kind = "summary"

\* Every record of a non-empty input was filtered out.
C24_Witness ==
    /\ report = [kind |-> "no_transactions"]
    /\ Len(transaction_list) = 2
    /\ report_period = "This Week"

(***************************************************************************)
(* One call of process_webhook_message (messenger/handler.py): the payload *)
(* of a webhook request, its entries and their messaging events, handled   *)
(* in order on one thread.  Payloads, entries and events are the JSON      *)
(* values Meta (or anyone else) posts: dictionaries with or without the    *)
(* keys the code reads.                                                    *)
(***************************************************************************)
MaxPayloadEvents == 2

\* The handler is inside no outside call.
NoCall == [kind |-> "none"]

\* The call has not returned yet.
Running == [kind |-> "running"]

\* The call returned value.
Returned(value) == [kind |-> "returned", value |-> value]

\* An exception left the call.
Raised == [kind |-> "raised"]

\* Iterating or searching a value that is no container raises TypeError.
TypeError == [raises |-> "TypeError"]

\* JSON values that are no dictionary: a list, null, a number.
JsonArray(items) == [json |-> "array", items |-> items]

JsonNull == [json |-> "null"]

JsonNumber == [json |-> "number"]

\* for entry in payload["entry"]: if "messaging" not in entry: continue
\* for message_event in entry["messaging"]: the events in the order the
\* two loops reach them, up to the entry that raises.
RECURSIVE message_events(_)
message_events(entries) ==
    IF entries = <<>> THEN <<>>
    ELSE IF Head(entries) = JsonNumber THEN <<TypeError>>
    ELSE IF "messaging" \notin DOMAIN Head(entries) THEN message_events(Tail(entries))
    ELSE Head(entries).messaging \o message_events(Tail(entries))

\* What the loops of process_webhook_message go through.
loop(payload) ==
    IF "entry" \notin DOMAIN payload THEN <<>>
    ELSE IF payload.entry = JsonNull THEN <<TypeError>>
    ELSE message_events(payload.entry.items)

\* process_webhook_message body without its except clause
process_webhook_message_without_except(payload, handled) ==
    IF "entry" \notin DOMAIN payload THEN Returned(FALSE)
    ELSE IF handled < Len(loop(payload)) THEN Raised
    ELSE Returned(TRUE)

\* What process_webhook_message returns once `handled` events were handled
\* and the loops stop: at their end, or at the entry that raises.
process_webhook_message(payload, handled) ==
    IF "entry" \notin DOMAIN payload THEN Returned(FALSE)
    ELSE IF handled < Len(loop(payload)) THEN Returned(FALSE)
    ELSE Returned(TRUE)

\* event.get("sender", {}).get("id"), read as the id of no user
sender_id_anonymous(event) == "u2"

\* event.get("sender", {}).get("id"); "" stands for None
sender_id(event) == dict_get(dict_get(event, "sender", EmptyDict), "id", "")

\* _handle_message_event after the sender id was found: the handler the
\* event goes to, or none (an event that is no message and no postback).
HasHandler(event) == "message" \in DOMAIN event \/ "postback" \in DOMAIN event

_handle_message_event(w, event, env) ==
    IF "message" \in DOMAIN event
    THEN IF "quick_reply" \in DOMAIN event.message
         THEN _handle_quick_reply(w, sender_id(event), event.message.quick_reply.payload, env)
         ELSE IF "text" \in DOMAIN event.message
         THEN _handle_text_message(w, sender_id(event), strip(event.message.text), env)
         ELSE _handle_unsupported_message(w, sender_id(event))
    ELSE _handle_postback(w, sender_id(event), event.postback.payload, env)

\* The events of a payload.
Sender(user_id) == [id |-> user_id]

TextEvent(user_id, text) ==
    [sender |-> Sender(user_id), message |-> [mid |-> "m", text |-> text]]

QuickReplyEvent(user_id, payload) ==
    [sender |-> Sender(user_id), message |-> [mid |-> "m", quick_reply |-> [payload |-> payload]]]

PostbackEvent(user_id, payload) ==
    [sender |-> Sender(user_id), postback |-> [payload |-> payload]]

\* a sticker or an attachment
StickerEvent(user_id) == [sender |-> Sender(user_id), message |-> [mid |-> "m"]]

\* a delivery receipt: neither "message" nor "postback"
DeliveryEvent(user_id) == [sender |-> Sender(user_id), delivery |-> "d"]

\* a text message that names no sender
AnonymousEvent == [message |-> [mid |-> "m", text |-> <<"h","i">>]]

WebhookTexts == {<<"1","5","0">>,
                 <<"b","u","y">>,
                 <<"b","u","y"," ","c","h","i","p","s">>,
                 <<"s","a","l","a","r","y">>,
                 <<"p","a","i","d"," ","s","a","l","a","r","y">>,
                 <<"v","i","e","w">>}

MessageEvents ==
    {TextEvent("u1", text) : text \in WebhookTexts}
    \cup {QuickReplyEvent("u1", payload) : payload \in {LOG_EXPENSE, PERIOD_WEEK}}
    \cup {PostbackEvent("u1", GET_STARTED), StickerEvent("u1"),
          DeliveryEvent("u1"), AnonymousEvent}

Messagings == UNION {[1..n -> MessageEvents] : n \in 0..MaxPayloadEvents}

\* The payloads: without "entry"; with an "entry" that is no list; with
\* entries, among them one without "messaging" or one that is no dictionary.
WebhookPayloads ==
    {[object |-> "page"], [object |-> "page", entry |-> JsonNull]}
    \cup {[object |-> "page",
           entry  |-> JsonArray(<<[id |-> "e", messaging |-> m]>>)] : m \in Messagings}
    \cup {[object |-> "page",
           entry  |-> JsonArray(<<[id |-> "e"], [id |-> "e", messaging |-> m]>>)] :
            m \in Messagings}
    \cup {[object |-> "page",
           entry  |-> JsonArray(<<[id |-> "e", messaging |-> m], JsonNumber>>)] :
            m \in Messagings}

\* Sessions the dialogue reaches before the payload arrives: none; u1 asked
\* for the amount of an expense; u1 asked for the period; one expense logged.
EmptyWorld ==
    [cs |-> EmptyDict, log |-> [header |-> DATA_LOG_COLUMNS, rows |-> <<>>], report |-> 0]

WorldOf(r) == [cs |-> r.cs, log |-> r.log, report |-> r.report]

AwaitingAmount ==
    WorldOf(_handle_text_message(
        WorldOf(_handle_quick_reply(
            WorldOf(_handle_quick_reply(EmptyWorld, "u1", LOG_EXPENSE, AllOk)),
            "u1", CATEGORY_FOOD, AllOk)),
        "u1", <<"x">>, AllOk))

AwaitingPeriod == WorldOf(_handle_quick_reply(EmptyWorld, "u1", VIEW_STATS, AllOk))

OneLogged == WorldOf(_handle_text_message(AwaitingAmount, "u1", <<"1","5","0">>, AllOk))

\* u1 asked for the amount of an expense; the sheet is a new one, as
\* initialize_sheets left it when the application started.
AwaitingAmountNewSheet == [AwaitingAmount EXCEPT !.log = initialize_sheets(EmptySheet)]

WebhookWorlds ==
    {EmptyWorld, AwaitingAmount, AwaitingPeriod, OneLogged, AwaitingAmountNewSheet}

InitWebhook ==
    /\ \E w \in WebhookWorlds :
        /\ conversation_states = w.cs
        /\ data_log = w.log
        /\ formatted_report = w.report
    /\ outbox = <<>>
    /\ threads = [t \in Threads |-> IdleThread]
    /\ events = 0
    /\ amount_text = <<>>
    /\ parsed = None
    /\ instant = 0
    /\ local_tz = 0
    /\ transaction_list = <<>>
    /\ report_period = "This Week"
    /\ report = NoReport
    /\ cutoffs = NoCutoffs
    /\ webhook_payload \in WebhookPayloads
    /\ returned = Running
    /\ pending_call = NoCall

\* success = _handle_message_event(message_event), for the next event of
\* the loops: an event without sender id, or without handler, is passed
\* over; any other goes to its handler, whose answer is sent.
HandleMessageEvent ==
    /\ returned = Running
    /\ events < Len(loop(webhook_payload))
    /\ loop(webhook_payload)[events + 1] # TypeError
    /\ LET event == loop(webhook_payload)[events + 1]
       IN  IF sender_id(event) = "" \/ ~HasHandler(event)
           THEN /\ events' = events + 1
                /\ outbox' = <<>>
                /\ UNCHANGED <<conversation_states, data_log, formatted_report>>
           ELSE \E env \in Envs, sent \in BOOLEAN :
                    Commit(_handle_message_event(World, event, env), sender_id(event), sent)
    /\ UNCHANGED <<threads, amount_text, parsed, report_vars, webhook_payload, returned,
                   pending_call>>

\* return True / return False, at the end of the loops or from the except
\* clause around them.
ReturnFromWebhook ==
    /\ returned = Running
    /\ \/ events = Len(loop(webhook_payload))
       \/ /\ events < Len(loop(webhook_payload))
          /\ loop(webhook_payload)[events + 1] = TypeError
    /\ returned' = process_webhook_message(webhook_payload, events)
    /\ UNCHANGED <<conversation_states, data_log, formatted_report, outbox, threads,
                   events, amount_text, parsed, report_vars, webhook_payload,
                   pending_call>>

NextWebhook == HandleMessageEvent \/ ReturnFromWebhook

SpecWebhook == InitWebhook /\ [][NextWebhook]_vars

(***************************************************************************)
(* C25: no failure of a boundary call leaves the engine.  For every        *)
(* payload (well formed or not) and every combination of failing store     *)
(* calls and failing sends, process_webhook_message ends by returning TRUE *)
(* or FALSE; no exception leaves it.                                       *)
(***************************************************************************)
C25_ReturnsBooleanNeverRaises ==
    /\ returned # Raised
    /\ returned.kind = "returned" => returned.value \in BOOLEAN

\* The call returned FALSE from its except clause after an event was
\* answered with the storage error, its send failing too.
C25_Witness ==
    /\ returned = Returned(FALSE)
    /\ events = 1
    /\ Len(loop(webhook_payload)) = 2
    /\ outbox # <<>>
    /\ outbox[1].msg = send_error_message("sheets_error")
    /\ ~outbox[1].sent

C27_AnonymousEventDropped ==
    [][/\ (/\ returned = Running
           /\ events < Len(loop(webhook_payload))
           /\ loop(webhook_payload)[events + 1] = AnonymousEvent)
          => /\ UNCHANGED <<conversation_states, data_log, formatted_report>>
             /\ outbox' = <<>>
             /\ events' = events + 1
             /\ returned' = Running
       /\ (/\ returned = Running
           /\ events' = events + 1
           /\ outbox' # <<>>)
          => outbox'[1].to = sender_id(loop(webhook_payload)[events + 1])
       /\ returned' = Returned(TRUE) => events = Len(loop(webhook_payload))
      ]_vars

\* The payload's first event had no sender id, its second was answered,
\* and the call returned TRUE.
C27_Witness ==
    /\ returned = Returned(TRUE)
    /\ events = 2
    /\ loop(webhook_payload)[1] = AnonymousEvent
    /\ outbox # <<>>
    /\ outbox[1].to = "u1"
    /\ outbox[1].msg = CategoryPrompt

(***************************************************************************)
(* C28: in IDLE, a text that contains an expense keyword moves the session *)
(* to WAITING_EXPENSE_CATEGORY and is answered with the category choice,   *)
(* whatever else it contains; a text that contains an income keyword moves *)
(* it to WAITING_INCOME_SOURCE with the source choice; a text that         *)
(* contains a stats keyword moves it to WAITING_STATS_PERIOD with the      *)
(* period choice.                                                          *)
(***************************************************************************)
C28_KeywordTextsStartFlows ==
    [][\A text \in WebhookTexts :
        (/\ returned = Running
         /\ events < Len(loop(webhook_payload))
         /\ loop(webhook_payload)[events + 1] = TextEvent("u1", text)
         /\ _get_conversation_state(conversation_states, "u1") = IDLE
         /\ events' = events + 1)
        => /\ any_in(lower(strip(text)), ExpenseWords)
              => /\ _get_conversation_state(conversation_states', "u1")
                        = WAITING_EXPENSE_CATEGORY
                 /\ outbox'[1].msg = CategoryPrompt
           /\ any_in(lower(strip(text)), IncomeWords)
              => /\ _get_conversation_state(conversation_states', "u1")
                        = WAITING_INCOME_SOURCE
                 /\ outbox'[1].msg = SourcePrompt
           /\ any_in(lower(strip(text)), StatsWords)
              => /\ _get_conversation_state(conversation_states', "u1")
                        = WAITING_STATS_PERIOD
                 /\ outbox'[1].msg = PeriodPrompt
      ]_vars

(***************************************************************************)
(* C29: while the header row of the log is the six expected column names,  *)
(* no step removes or alters a row of the log: the rows only grow at the   *)
(* end, so a transaction whose append returned ok stays as it was through  *)
(* the rebuild that follows it and through every later one.  A rebuild     *)
(* clears the log and appends the column names only under a header row     *)
(* that is not the expected one.                                           *)
(***************************************************************************)
C29_RebuildKeepsRows ==
    [][/\ data_log.header = DATA_LOG_COLUMNS
          => /\ data_log'.header = DATA_LOG_COLUMNS
             /\ Len(data_log'.rows) >= Len(data_log.rows)
             /\ SubSeq(data_log'.rows, 1, Len(data_log.rows)) = data_log.rows
       /\ (/\ data_log'.rows = <<ColumnNamesRow>>
           /\ data_log'.rows # data_log.rows)
          => data_log.header # DATA_LOG_COLUMNS
      ]_vars

\* An expense was appended under the expected header, the rebuild ran and
\* counted it, and the row is in the log.
C29_Witness ==
    /\ events >= 1
    /\ data_log.header = DATA_LOG_COLUMNS
    /\ Len(data_log.rows) = 1
    /\ IsTransactionRow(data_log.rows[1])
    /\ formatted_report = 1
    /\ outbox # <<>>
    /\ outbox[1].msg = ExpenseConfirmation

(***************************************************************************)
(* The same call with the outside calls of a handler drawn apart: the      *)
(* handler waits in a call of the record store (gspread, sheets/api.py),   *)
(* then in the POST of the Send API (requests, messenger/api.py).          *)
(* requests.post(..., timeout=10) ends after ten seconds at the latest,    *)
(* with an answer or with requests.exceptions.Timeout, which _send_message *)
(* turns into False.  The gspread client of _authenticate is given no      *)
(* timeout, so a call of the record store ends when the store answers.     *)
(***************************************************************************)
\* The next event of the loops, when there is one to handle.
HasNextEvent ==
    /\ returned = Running
    /\ pending_call = NoCall
    /\ events < Len(loop(webhook_payload))
    /\ loop(webhook_payload)[events + 1] # TypeError

NextEvent == loop(webhook_payload)[events + 1]

\* The handler of the event calls the record store: what the store does
\* decides what the handler does.
calls_store(w, event) ==
    \E env \in Envs :
        _handle_message_event(w, event, env) # _handle_message_event(w, event, AllOk)

\* if not sender_id: return False / else: return True
PassOver ==
    /\ HasNextEvent
    /\ sender_id(NextEvent) = "" \/ ~HasHandler(NextEvent)
    /\ events' = events + 1
    /\ outbox' = <<>>
    /\ UNCHANGED <<conversation_states, data_log, formatted_report, threads,
                   amount_text, parsed, report_vars, webhook_payload, returned,
                   pending_call>>

\* The handler of the next event enters its first outside call:
\* worksheet.append_row(...) / worksheet.get_all_records() when it calls
\* the store, requests.post(MESSENGER_API_URL, ..., timeout=10) when not.
EnterCall ==
    /\ HasNextEvent
    /\ sender_id(NextEvent) # "" /\ HasHandler(NextEvent)
    /\ pending_call' =
          IF calls_store(World, NextEvent)
          THEN [kind |-> "store"]
          ELSE [kind |-> "send", to |-> sender_id(NextEvent),
                result |-> _handle_message_event(World, NextEvent, AllOk)]
    /\ UNCHANGED <<conversation_states, data_log, formatted_report, outbox, threads,
                   events, amount_text, parsed, report_vars, webhook_payload, returned>>

\* The record store answers: the calls of this event succeed or raise, the
\* handler goes on to its message and enters requests.post.
StoreAnswers ==
    /\ pending_call = [kind |-> "store"]
    /\ \E env \in Envs :
        pending_call' = [kind |-> "send", to |-> sender_id(NextEvent),
                         result |-> _handle_message_event(World, NextEvent, env)]
    /\ UNCHANGED <<conversation_states, data_log, formatted_report, outbox, threads,
                   events, amount_text, parsed, report_vars, webhook_payload, returned>>

\* The Send API answers, or the ten seconds pass (sent is FALSE), and the
\* handler returns.
SendAnswers ==
    /\ "result" \in DOMAIN pending_call
    /\ \E sent \in BOOLEAN : Commit(pending_call.result, pending_call.to, sent)
    /\ pending_call' = NoCall
    /\ UNCHANGED <<threads, amount_text, parsed, report_vars, webhook_payload, returned>>

NextCalls == PassOver \/ EnterCall \/ StoreAnswers \/ SendAnswers \/ ReturnFromWebhook

\* Calls with one event: an amount, a period, a menu selection, or an
\* event without sender.
CallEvents ==
    {TextEvent("u1", <<"1","5","0">>), QuickReplyEvent("u1", PERIOD_WEEK),
     QuickReplyEvent("u1", LOG_EXPENSE), AnonymousEvent}

InitCalls ==
    /\ InitWebhook
    /\ \E event \in CallEvents :
        webhook_payload =
            [object |-> "page", entry |-> JsonArray(<<[id |-> "e", messaging |-> <<event>>]>>)]

\* The steps that need no answer of the record store: those of the request
\* thread itself, and the end of requests.post, which its timer forces.
ThreadRuns == PassOver \/ EnterCall \/ SendAnswers \/ ReturnFromWebhook

\* The thread of the request runs on and the timer of requests runs out; no
\* timer stands behind the answer of the record store.
SpecCalls == InitCalls /\ [][NextCalls]_vars /\ WF_vars(ThreadRuns)

(***************************************************************************)
(* C30: the handling of every event ends: a handler that waits in a call   *)
(* of the record store or of the Send API leaves it after a bounded time   *)
(* (with an answer, or with a timeout it treats as a failure), so every    *)
(* call of process_webhook_message returns.                                *)
(***************************************************************************)
C30_EventHandlingTerminates == (returned = Running) ~> (returned # Running)

(***************************************************************************)
(* Reports and the stored records                                          *)
(***************************************************************************)
\* C31: handling a period selection, whatever the state of the session and
\* whether or not the sheet can be read, adds, removes and changes no row of
\* the transaction log.
C31_ReportLeavesRows ==
    [][\A payload \in {PERIOD_WEEK, PERIOD_MONTH} :
        SelectionStep("u1", payload) => data_log'.rows = data_log.rows
      ]_vars

\* The report was sent for a log that holds a transaction, and the
\* transaction is still there.
C31_Witness ==
    /\ outbox # <<>>
    /\ outbox[1].msg = ReportText
    /\ Len(data_log.rows) >= 1
    /\ IsTransactionRow(data_log.rows[1])
    /\ "u1" \in DOMAIN conversation_states
    /\ _get_conversation_state(conversation_states, "u1") = IDLE

\* C33: when a rebuild has found a first row other than the expected column
\* names and has re-initialized the transaction log, the first row of the
\* log is the expected six column names (so that the next rebuild keeps the
\* transactions appended afterwards); the same holds for the sheet that
\* initialize_sheets leaves when it ran on an empty sheet.
C33_ReinitializedHeaderExpected ==
    [][(/\ data_log.header # DATA_LOG_COLUMNS
        /\ data_log'.rows = <<ColumnNamesRow>>)
       => /\ data_log'.header = DATA_LOG_COLUMNS
          /\ initialize_sheets(EmptySheet).header = DATA_LOG_COLUMNS
      ]_vars

(***************************************************************************)
(* The dialogue's report path over the stored records: log_transaction     *)
(* appends a record stamped with the UTC+8 wall clock, and a period        *)
(* selection reads the records back (get_transactions_for_period: user     *)
(* filter, then the sheet's period filter) and hands them to               *)
(* generate_report.  transaction_list holds the records of Data_Log as     *)
(* get_all_records returns them, keyed by the names of DATA_LOG_COLUMNS.   *)
(***************************************************************************)
MaxSheetRows == 2

\* Sun 28 Jan 2024 14:00 UTC (22:00 in UTC+8), Sun 28 Jan 15:00 UTC (23:00
\* in UTC+8, Mon 29 Jan 00:00 in UTC+9), Tue 30 Jan 04:00 UTC.
SheetInstants == {662, 663, 700}

\* The machine runs in UTC, in UTC+8 or in UTC+9.
ServerOffsets == {0, 8, 9}

\* format_manila_timestamp(): the wall clock of now_manila(), which
\* pd.to_datetime reads back as a naive datetime of the same wall clock.
format_manila_timestamp == now_manila.wall

\* The record get_all_records returns for the row_data log_transaction wrote.
sheet_record(timestamp, transaction_type, category_or_source, description, amount, user_id) ==
    [timestamp          |-> timestamp,
     transaction_type   |-> transaction_type,
     category_or_source |-> category_or_source,
     description        |-> description,
     amount             |-> amount,
     user_id            |-> user_id]

\* A slip: the records of every user are read.
read_transactions_for_period_of_all(all_records, period_, user_id) ==
    _filter_transactions_by_period_fixed(all_records, period_)

\* get_transactions_for_period(period, user_id) over the records of the sheet
read_transactions_for_period(all_records, period_, user_id) ==
    LET of_user == SelectSeq(all_records,
                             LAMBDA record : dict_get(record, "user_id", "") = user_id)
    IN  IF of_user = <<>> THEN <<>>
        ELSE _filter_transactions_by_period_fixed(of_user, period_)

\* The text _generate_and_send_report sends, as the values it is built from.
report_for_user(all_records, user_id, period_) ==
    LET transactions == read_transactions_for_period(all_records, period_, user_id)
    IN  IF transactions = <<>> THEN [kind |-> "no_transactions_found"]
        ELSE generate_report(transactions, period_)

\* What the two flows store: the type, the category or source, the amount.
LoggedKinds == {<<"expense", "Food", 150>>, <<"income", "Salary", 1000>>}

SheetUsers == {"u1", "u2"}

InitSheet ==
    /\ conversation_states = EmptyDict
    /\ data_log = [header |-> DATA_LOG_COLUMNS, rows |-> <<>>]
    /\ formatted_report = 0
    /\ outbox = <<>>
    /\ threads = [t \in Threads |-> IdleThread]
    /\ events = 0
    /\ amount_text = <<>>
    /\ parsed = None
    /\ instant \in SheetInstants
    /\ local_tz \in ServerOffsets
    /\ transaction_list = <<>>
    /\ report_period = "This Week"
    /\ report = NoReport
    /\ cutoffs = NoCutoffs
    /\ webhook_payload = [kind |-> "none"]
    /\ returned = [kind |-> "none"]
    /\ pending_call = [kind |-> "none"]

\* log_transaction(transaction_type, category_or_source, description,
\* amount, user_id) with the sheet answering
LogTransaction ==
    /\ Len(transaction_list) < MaxSheetRows
    /\ \E user_id \in SheetUsers, kind \in LoggedKinds :
        transaction_list' =
            Append(transaction_list,
                   sheet_record(format_manila_timestamp, kind[1], kind[2],
                                kind[2], kind[3], user_id))
    /\ UNCHANGED <<conversation_states, data_log, formatted_report, outbox,
                   threads, events, amount_text, parsed,
                   instant, local_tz, report_period, report, cutoffs,
                   webhook_vars>>

\* Time passes.
ClockTick ==
    /\ \E later \in SheetInstants : later > instant /\ instant' = later
    /\ UNCHANGED <<conversation_states, data_log, formatted_report, outbox,
                   threads, events, amount_text, parsed,
                   local_tz, transaction_list, report_period, report, cutoffs,
                   webhook_vars>>

\* _generate_and_send_report(user_id, period) with the sheet answering
RequestReport ==
    /\ \E user_id \in SheetUsers, period_ \in {"This Week", "This Month"} :
        /\ report_period' = period_
        /\ report' = [kind      |-> "sent",
                      to        |-> user_id,
                      at        |-> instant,
                      retrieved |-> read_transactions_for_period(transaction_list, period_, user_id),
                      view      |-> report_for_user(transaction_list, user_id, period_)]
    /\ UNCHANGED <<conversation_states, data_log, formatted_report, outbox,
                   threads, events, amount_text, parsed,
                   instant, local_tz, transaction_list, cutoffs,
                   webhook_vars>>

NextSheet == LogTransaction \/ ClockTick \/ RequestReport

SpecSheet == InitSheet /\ [][NextSheet]_vars

\* The step is a report request, answered in the primed state.
ReportRequested ==
    /\ report'.kind = "sent"
    /\ report'.at = instant
    /\ UNCHANGED <<instant, transaction_list>>
    /\ report'.retrieved = read_transactions_for_period(transaction_list, report_period', report'.to)

\* C32: the "This Week" report sent to a user counts each record the user
\* logged in the same civil week in the total of its type: Total Expenses
\* is at least the amount of each such expense, Total Income at least the
\* amount of each such income.
C32_LoggedRecordCounted ==
    [][(ReportRequested /\ report_period' = "This Week")
       => \A i \in 1..Len(transaction_list) :
            LET t == transaction_list[i]
            IN  (/\ t.user_id = report'.to
                 /\ t.timestamp >= get_week_start_manila(now_manila).wall)
                => /\ report'.view.kind = "summary"
                   /\ t.transaction_type = "expense" => report'.view.expense_total >= t.amount
                   /\ t.transaction_type = "income" => report'.view.income_total >= t.amount
      ]_vars

\* C39: the records get_transactions_for_period returns are all kept by
\* generate_report's own period filter, whatever the offset of the machine's
\* clock: the report counts as many transactions as were retrieved, and it
\* is a summary whenever a record was retrieved.
C39_PeriodFiltersAgree ==
    [][(ReportRequested /\ report'.retrieved # <<>>)
       => /\ report'.view.kind = "summary"
          /\ report'.view.transaction_count = Len(report'.retrieved)
      ]_vars

\* C40: the report sent to a user is the report of that user's records
\* alone: it is what the same request yields on a sheet from which the
\* records of every other user were removed, with as many transactions as
\* the user has in the period.
C40_ReportOfOwnRecordsOnly ==
    [][ReportRequested
       => LET own == SelectSeq(transaction_list,
                               LAMBDA record : record.user_id = report'.to)
          IN  /\ report'.view = report_for_user(own, report'.to, report_period')
              /\ \A i \in 1..Len(report'.retrieved) :
                    report'.retrieved[i].user_id = report'.to
              /\ report'.view.kind = "summary"
                 => report'.view.transaction_count <= Len(own)
      ]_vars

\* A summary of one transaction was sent to u1 while the sheet holds a
\* record of u1 and a record of u2, both of the period.
C40_Witness ==
    /\ report.kind = "sent"
    /\ report.to = "u1"
    /\ report.at = instant
    /\ report.view.kind = "summary"
    /\ report.view.transaction_count = 1
    /\ Len(transaction_list) = 2
    /\ \E i, j \in 1..2 :
        /\ transaction_list[i].user_id = "u1"
        /\ transaction_list[j].user_id = "u2"
    /\ Len(read_transactions_for_period_of_all(transaction_list, report_period, "u1")) = 2

(***************************************************************************)
(* Sessions over whole runs                                                *)
(***************************************************************************)
\* The state in which the bot offers the selection that payload stands for.
OfferingState(payload) ==
    IF startswith(payload, <<"C","A","T","E","G","O","R","Y","_">>) THEN WAITING_EXPENSE_CATEGORY
    ELSE IF startswith(payload, <<"S","O","U","R","C","E","_">>) THEN WAITING_INCOME_SOURCE
    ELSE WAITING_STATS_PERIOD

\* C34: a category, source or period selection received in a state other
\* than the one that offered it changes neither the state nor the pending
\* data of the session; so WAITING_EXPENSE_DESCRIPTION is entered only from
\* WAITING_EXPENSE_CATEGORY, WAITING_INCOME_DESCRIPTION only from
\* WAITING_INCOME_SOURCE, and a report is generated only from
\* WAITING_STATS_PERIOD.
C34_SelectionOnlyInOfferingState ==
    [][\A payload \in {CATEGORY_FOOD, SOURCE_SALARY, PERIOD_WEEK, PERIOD_MONTH} :
        (/\ SelectionStep("u1", payload)
         /\ _get_conversation_state(conversation_states, "u1") # OfferingState(payload))
        => /\ _get_conversation_state(conversation_states', "u1")
                = _get_conversation_state(conversation_states, "u1")
           /\ _get_conversation_data(conversation_states', "u1")
                = _get_conversation_data(conversation_states, "u1")
           /\ outbox'[1].msg \notin {ReportText, NoTransactionsText}
      ]_vars

\* The pending data of user_id holds a value under key.
HasField(user_id, key) ==
    key \in DOMAIN _get_conversation_data(conversation_states, user_id)

\* C35: with events handled one at a time, each waiting state holds the
\* fields it needs: WAITING_EXPENSE_DESCRIPTION the expense_category,
\* WAITING_EXPENSE_AMOUNT also an expense_description of at least two
\* characters, WAITING_INCOME_DESCRIPTION the income_source and
\* WAITING_INCOME_AMOUNT also the income_description; so the amount
\* handlers never fall back to "Other", "Expense" or "Income".
C35_WaitingStatesHoldFields ==
    \A u \in Users :
        LET state == _get_conversation_state(conversation_states, u)
            data  == _get_conversation_data(conversation_states, u)
        IN  /\ state = WAITING_EXPENSE_DESCRIPTION => HasField(u, "expense_category")
            /\ state = WAITING_EXPENSE_AMOUNT
               => /\ HasField(u, "expense_category")
                  /\ HasField(u, "expense_description")
                  /\ Len(data["expense_description"]) >= 2
            /\ state = WAITING_INCOME_DESCRIPTION => HasField(u, "income_source")
            /\ state = WAITING_INCOME_AMOUNT
               => /\ HasField(u, "income_source")
                  /\ HasField(u, "income_description")

\* The session asks for the amount of an expense with both fields of this
\* flow, after an income flow was begun and abandoned.
C35_Witness ==
    /\ _get_conversation_state(conversation_states, "u1") = WAITING_EXPENSE_AMOUNT
    /\ HasField("u1", "expense_category")
    /\ HasField("u1", "expense_description")
    /\ HasField("u1", "income_source")
    /\ events >= 4

\* C38: with events handled one at a time, a session in IDLE has empty
\* pending data; a user never seen counts as IDLE with empty data.
C38_IdleHasEmptyData ==
    \A u \in Users :
        _get_conversation_state(conversation_states, u) = IDLE
        => _get_conversation_data(conversation_states, u) = EmptyDict

\* The session is IDLE with empty data after a completed expense flow.
C38_Witness ==
    /\ "u1" \in DOMAIN conversation_states
    /\ _get_conversation_state(conversation_states, "u1") = IDLE
    /\ _get_conversation_data(conversation_states, "u1") = EmptyDict
    /\ outbox # <<>>
    /\ outbox[1].msg = ExpenseConfirmation
    /\ Len(data_log.rows) >= 1

\* C37: every amount the parser returns is accepted by the validation of
\* log_transaction: a returned number is greater than 0 after the rounding
\* to 2 decimals.
C37_ParsedAmountPositive ==
    (parsed # Unparsed /\ parsed.kind = "float") => parsed.cents > 0

\* C36: when events of one user are handled concurrently, no transaction is
\* appended whose category, source or description is a fallback default
\* ("Other", "Expense", "Income") instead of what the user supplied, and no
\* session is in a WAITING_*_AMOUNT state with empty pending data.
C36_ConcurrentFlowKeepsFields ==
    /\ \A i \in 1..Len(data_log.rows) :
          IsTransactionRow(data_log.rows[i])
          => /\ data_log.rows[i].category_or_source # "Other"
             /\ data_log.rows[i].description
                   \notin {DefaultExpenseDescription, DefaultIncomeDescription}
    /\ \A u \in Users :
          _get_conversation_state(conversation_states, u) \in AmountStates
          => _get_conversation_data(conversation_states, u) # EmptyDict

====
